---- MODULE Spec2Model ----
(***************************************************************************)
(* ameriagrab: incremental sync of card, linked-account and account        *)
(* transactions into the local SQLite store (cmd/sync.go, db/*.go).        *)
(*                                                                         *)
(* The store tables are bags of rows, so that a duplicate row is a state   *)
(* the model can express; the PRIMARY KEY and INSERT OR IGNORE are what    *)
(* keep the bags duplicate-free.                                           *)
(***************************************************************************)
EXTENDS Bags, FiniteSets, Integers, Sequences, TLC

(***************************************************************************)
(* Bounds of the model.                                                    *)
(***************************************************************************)
\* syncPageSize is 1000 in the source; the loop only compares the length of
\* a page with it, so the model scales it down.
PageSize == 2
\* longest card-feed response (GetTransactions is unpaginated)
MaxCardLen == 2
\* longest linked-account history of an unchanging remote
MaxFeedLen == 3
\* largest enrichment batch of the enrichment-only specification
MaxBatch == 6

(***************************************************************************)
(* Program constants.                                                      *)
(***************************************************************************)
MaxHistoryPages == 2   \* pages of the history feed of an unchanging remote

\* g.SetLimit(5)
Limit == 5

\* const schemaVersion
schemaVersion == 5

\* time.Minute, in ticks of the clock of this model (a tick is 30 s)
Minute == 2

(***************************************************************************)
(* Values.                                                                 *)
(***************************************************************************)
Min(a, b) == IF a < b THEN a ELSE b

SeqUpTo(S, n) == UNION {[1..k -> S] : k \in 0..n}

\* client.Transaction: the two fields the sync logic reads, and Details for
\* the fields it only stores
Transaction(id, operationDate) ==
    [ID |-> id, OperationDate |-> operationDate, Details |-> ""]

\* the record as the remote returns it after a revision of its fields
Revised(t) == [t EXCEPT !.Details = "revised"]

\* records the card feed can return
CardFeedTxns == {Transaction("t1", "d1"), Transaction("t2", "d1")}

\* records the linked-account feed can return
LinkedFeedTxns == {Transaction("t1", "d1"), Transaction("t1", "d2")}

\* client.AccountTransaction: the field the sync logic reads, and Details
\* for the fields it only stores
AccountTransaction(id) == [ID |-> id, Details |-> ""]

\* records the account-history feed can return
HistoryFeedTxns == {AccountTransaction("h1"), AccountTransaction("h2")}

\* records of the three feeds of a remote that revises what it has returned
RevisedCardFeedTxns ==
    {Transaction("t1", "d1"), Revised(Transaction("t1", "d1"))}
RevisedLinkedFeedTxns ==
    {Transaction("t1", "d1"), Revised(Transaction("t1", "d1")),
     Transaction("t1", "d2")}
RevisedHistoryFeedTxns ==
    {AccountTransaction("h1"), Revised(AccountTransaction("h1"))}

\* client.ProductInfo: ID, ProductType and AccountID
ProductInfo(id, productType, accountID) ==
    [ID |-> id, ProductType |-> productType, AccountID |-> accountID]

Card1 == ProductInfo("c1", "CARD", "a1")
\* a second card on the same account as Card1
Card2 == ProductInfo("c2", "CARD", "a1")
\* a card without linked account
Card3 == ProductInfo("c2", "CARD", "")
Account1 == ProductInfo("a1", "ACCOUNT", "")

\* resp.Data.AccountsAndCards of one invocation: a customer with cards only
CardLists == {<<Card1>>, <<Card2>>, <<Card3>>, <<Card1, Card2>>}

\* resp.Data.AccountsAndCards of one invocation
ProductLists == CardLists \cup {<<Account1>>, <<Account1, Card1>>}

\* client.TransactionExtendedInfo built from a details response
ExtInfo == "ext"

(***************************************************************************)
(* db: composite key                                                       *)
(***************************************************************************)
TxnKey(id, operationDate) == id \o "|" \o operationDate

(***************************************************************************)
(* db: rows and INSERT OR IGNORE under PRIMARY KEY (id, operation_date)    *)
(***************************************************************************)
CardRow(productID, t) ==
    [id |-> t.ID, product_id |-> productID, operation_date |-> t.OperationDate,
     details |-> t.Details]

\* extended columns start NULL, extended_fetched defaults to 0
LinkedRow(productID, t) ==
    [id |-> t.ID, product_id |-> productID, operation_date |-> t.OperationDate,
     details |-> t.Details, ext |-> "NULL", extended_fetched |-> 0]

\* PRIMARY KEY (id, operation_date) of the two card tables, PRIMARY KEY (id)
\* of account_transactions; product_id is part of neither
PrimaryKey(row) ==
    IF "operation_date" \in DOMAIN row
    THEN <<row.id, row.operation_date>>
    ELSE <<row.id>>

PrimaryKeyConflict(table, row) ==
    \E r \in BagToSet(table) : PrimaryKey(r) = PrimaryKey(row)

BagRemove(table, S) == [r \in BagToSet(table) \ S |-> table[r]]

\* INSERT OR REPLACE: the conflicting row is deleted and the new one stored
InsertOrReplace(table, row) ==
    BagRemove(table, {r \in BagToSet(table) : PrimaryKey(r) = PrimaryKey(row)})
        (+) SetToBag({row})

\* plain INSERT into a table without the key constraint
InsertUnchecked(table, row) == table (+) SetToBag({row})

InsertOrIgnore(table, row) ==
    IF PrimaryKeyConflict(table, row) THEN table ELSE table (+) SetToBag({row})

\* for _, t := range txns { stmt.Exec(...) }
RECURSIVE ExecAll(_, _)
ExecAll(table, rows) ==
    IF rows = <<>> THEN table
    ELSE ExecAll(InsertOrIgnore(table, Head(rows)), Tail(rows))

\* the statements executed before the failure stay written
WithTransactionNoRollback(table, result, failed) == result

\* the failure loses what earlier transactions had committed
WithTransactionDropsAll(table, result, failed) ==
    IF failed THEN EmptyBag ELSE result

\* fn's error rolls the transaction back; so does a failing commit
WithTransaction(table, result, failed) == IF failed THEN table ELSE result

InsertCardTransactions(table, productID, txns, failed) ==
    LET rows == [i \in 1..Len(txns) |-> CardRow(productID, txns[i])]
        done == ExecAll(table, rows)
    IN  [table    |-> WithTransaction(table, done, failed),
         inserted |-> BagCardinality(done) - BagCardinality(table),
         err      |-> failed]

\* account_transactions: PRIMARY KEY (id)
AccountRow(productID, t) ==
    [id |-> t.ID, product_id |-> productID, details |-> t.Details]

InsertAccountTransactions(table, productID, txns, failed) ==
    LET rows == [i \in 1..Len(txns) |-> AccountRow(productID, txns[i])]
        done == ExecAll(table, rows)
    IN  [table    |-> WithTransaction(table, done, failed),
         inserted |-> BagCardinality(done) - BagCardinality(table),
         err      |-> failed]

\* the count is the size of the batch
InsertLinkedCountsBatch(table, productID, txns, failed) ==
    LET rows == [i \in 1..Len(txns) |-> LinkedRow(productID, txns[i])]
        done == ExecAll(table, rows)
    IN  [table    |-> WithTransaction(table, done, failed),
         inserted |-> Len(txns),
         err      |-> failed]

InsertLinkedAccountTransactions(table, productID, txns, failed) ==
    LET rows == [i \in 1..Len(txns) |-> LinkedRow(productID, txns[i])]
        done == ExecAll(table, rows)
    IN  [table    |-> WithTransaction(table, done, failed),
         inserted |-> BagCardinality(done) - BagCardinality(table),
         err      |-> failed]

RowsOf(table, productID) == {r \in BagToSet(table) : r.product_id = productID}

GetExistingCardTxnKeys(table, productID) ==
    {TxnKey(r.id, r.operation_date) : r \in RowsOf(table, productID)}

GetExistingLinkedAccountTxnKeys(table, productID) ==
    {TxnKey(r.id, r.operation_date) : r \in RowsOf(table, productID)}

GetExistingAccountTxnIDs(table, productID) ==
    {r.id : r \in RowsOf(table, productID)}

RECURSIVE SumCopies(_, _)
SumCopies(table, S) ==
    IF S = {} THEN 0
    ELSE LET r == CHOOSE x \in S : TRUE
         IN  table[r] + SumCopies(table, S \ {r})

\* SELECT COUNT(*) ... WHERE product_id = ?
CountCardTransactions(table, productID) ==
    SumCopies(table, RowsOf(table, productID))

CountLinkedAccountTransactions(table, productID) ==
    SumCopies(table, RowsOf(table, productID))

CountAccountTransactions(table, productID) ==
    SumCopies(table, RowsOf(table, productID))

\* UPDATE ... SET <extended columns>, extended_fetched = 1
\*   WHERE product_id = ? AND id = ? AND operation_date = ?
UpdateTransactionExtendedInfo(table, productID, txnID, operationDate, ext) ==
    LET Match(r) == /\ r.product_id = productID
                    /\ r.id = txnID
                    /\ r.operation_date = operationDate
        Upd(r) == IF Match(r)
                  THEN [r EXCEPT !.ext = ext, !.extended_fetched = 1]
                  ELSE r
        S == BagToSet(table)
    IN  [x \in {Upd(r) : r \in S} |->
            SumCopies(table, {r \in S : Upd(r) = x})]

\* SELECT id, operation_date ... WHERE product_id = ?
\*   AND (extended_fetched IS NULL OR extended_fetched = 0)
GetTransactionsNeedingExtendedInfo(table, productID) ==
    {Transaction(r.id, r.operation_date) :
        r \in {x \in RowsOf(table, productID) : x.extended_fetched = 0}}

(***************************************************************************)
(* The remote institution.  An unstable remote answers every call with any *)
(* response (overlapping, shifted or repeated records); a stable one is a  *)
(* customer with cards only whose card feed and paginated linked-account   *)
(* history are the same on every call.                                     *)
(***************************************************************************)
UnstableRemote == [mode |-> "unstable"]

\* a remote that answers every call with any response and may return a
\* record it has returned before with other field values
RevisingRemote == [mode |-> "revising"]

StableRemotes ==
    {[mode |-> "stable", transactions |-> ct, eventsPast |-> f] :
        ct \in SeqUpTo(CardFeedTxns, MaxCardLen),
        f \in SeqUpTo(LinkedFeedTxns, MaxFeedLen)}

\* one answer of the account-history feed
HistoryPages ==
    {[Transactions |-> ts, HasNext |-> hn] :
        ts \in SeqUpTo(HistoryFeedTxns, PageSize), hn \in BOOLEAN}

\* a customer with one account whose history feed gives the same answer
\* for the same page on every call, and nothing past its last page
StableAccountRemotes ==
    {[mode |-> "stable", history |-> h] :
        h \in SeqUpTo(HistoryPages, MaxHistoryPages)}

\* c.GetTransactions(accessToken, cardID): the possible Data.Entries
GetTransactions(r, cardID) ==
    IF r.mode = "stable" THEN {r.transactions}
    ELSE IF r.mode = "revising" THEN SeqUpTo(RevisedCardFeedTxns, MaxCardLen)
    ELSE SeqUpTo(CardFeedTxns, MaxCardLen)

\* c.GetEventsPast(accessToken, accountID, size, page): the possible Data.Entries
GetEventsPast(r, accountID, size, pg) ==
    IF r.mode = "stable"
    THEN {SubSeq(r.eventsPast, pg * size + 1,
                 Min(Len(r.eventsPast), pg * size + size))}
    ELSE IF r.mode = "revising" THEN SeqUpTo(RevisedLinkedFeedTxns, size)
    ELSE SeqUpTo(LinkedFeedTxns, size)

\* c.GetAccountHistory(accessToken, accountID, size, page): the possible
\* Data.Transactions and Data.HasNext
GetAccountHistory(r, accountID, size, pg) ==
    IF r.mode = "stable"
    THEN {IF pg < Len(r.history) THEN r.history[pg + 1]
          ELSE [Transactions |-> <<>>, HasNext |-> FALSE]}
    ELSE IF r.mode = "revising"
    THEN {[Transactions |-> ts, HasNext |-> hn] :
             ts \in SeqUpTo(RevisedHistoryFeedTxns, size), hn \in BOOLEAN}
    ELSE {[Transactions |-> ts, HasNext |-> hn] :
             ts \in SeqUpTo(HistoryFeedTxns, size), hn \in BOOLEAN}

\* c.GetAccountsAndCards(accessToken): the possible Data.AccountsAndCards
GetAccountsAndCards(r) ==
    IF r.mode = "revising" THEN {<<Card1, Card2>>, <<Account1>>}
    ELSE IF r.mode # "stable" THEN ProductLists
    ELSE IF "history" \in DOMAIN r THEN {<<Account1>>}
    ELSE CardLists

(***************************************************************************)
(* State.                                                                  *)
(***************************************************************************)
VARIABLES
    card_transactions,                \* table card_transactions
    card_linked_account_transactions, \* table card_linked_account_transactions
    account_transactions,             \* table account_transactions
    remote,            \* the remote institution
    products,          \* RunE: products of the invocation not yet synced
    pc,                \* position of the invocation
    err,               \* error the current product's sync returns
    resp,              \* Data.Entries of the last response
    existingCardKeys,  \* syncCard
    existingKeys,      \* syncCardAccountTransactions
    existingIDs,       \* syncAccount
    hasNext,           \* syncAccount: Data.HasNext of the last response
    page,              \* syncCardAccountTransactions, syncAccount
    allExist,          \* syncCardAccountTransactions, syncAccount
    allNewTxns,        \* syncCardAccountTransactions; txns of the enrichment
    status,            \* fetchAndStoreExtendedInfo: one goroutine per txn
    extInfos,          \* fetchAndStoreExtendedInfo: accumulated results
    gerr,              \* the errgroup's first error
    wb,                \* fetchAndStoreExtendedInfo: position of the write-back
    synced,            \* products whose sync returned nil (stable remote only)
    failedBatch,       \* history: <<product, transaction>> that a failed
                       \* enrichment batch left without extended info
    cardTxns,          \* GetCombinedTransactions: the card records read
    linkedTxns,        \* GetCombinedTransactions: the linked-account records
    opts,              \* GetCombinedTransactions: CombinedTransactionsOptions
    mpc,               \* GetCombinedTransactions: control point
    combined,          \* GetCombinedTransactions: combined
    totalCount,        \* GetCombinedTransactions: totalCount
    schema_version,    \* table schema_version: the versions recorded
    schema,            \* migrations whose statements the database holds
    currentVersion,    \* Migrate: currentVersion
    migI,              \* Migrate: the loop's i
    mgpc,              \* Migrate: control point
    ran,               \* history: versions this call of Migrate has executed
    SessionFile,       \* Client.SessionFile: "" when persistence is disabled
    savedSession,      \* the file SessionFile names: <<>> when missing
    ClientID,          \* Client.ClientID
    Jar,               \* Client.HTTPClient.Jar: the cookies it holds
    now,               \* the wall clock, in ticks
    lpc,               \* LoadSession: control point
    loaded             \* LoadSession: the *SessionData returned, <<>> for nil

storeVars == <<card_transactions, card_linked_account_transactions,
               account_transactions>>
loopVars == <<resp, existingCardKeys, existingKeys, existingIDs, hasNext, page,
              allExist>>
groupVars == <<status, extInfos, gerr, wb>>
mergeVars == <<cardTxns, linkedTxns, opts, mpc, combined, totalCount>>
migrateVars == <<schema_version, schema, currentVersion, migI, mgpc, ran>>
sessionVars == <<SessionFile, savedSession, ClientID, Jar, now, lpc, loaded>>
setupVars == <<migrateVars, sessionVars>>
vars == <<card_transactions, card_linked_account_transactions,
          account_transactions, remote, products, pc, err, resp,
          existingCardKeys, existingKeys, existingIDs, hasNext, page,
          allExist, allNewTxns, status, extInfos, gerr, wb, synced, failedBatch,
          cardTxns, linkedTxns, opts, mpc, combined, totalCount,
          schema_version, schema, currentVersion, migI, mgpc, ran,
          SessionFile, savedSession, ClientID, Jar, now, lpc, loaded>>

cur == Head(products)
cardID == cur.ID
accountID == cur.ID

\* RunE: CARD products go to syncCard, all others to syncAccount
FirstPc(p) == IF p.ProductType = "CARD" THEN "card_fetch" ELSE "account_begin"

StartState ==
    /\ card_transactions = EmptyBag
    /\ card_linked_account_transactions = EmptyBag
    /\ account_transactions = EmptyBag
    /\ products = <<>>
    /\ pc = "idle"
    /\ err = "nil"
    /\ resp = <<>>
    /\ existingCardKeys = {}
    /\ existingKeys = {}
    /\ existingIDs = {}
    /\ hasNext = FALSE
    /\ page = 0
    /\ allExist = FALSE
    /\ allNewTxns = <<>>
    /\ status = <<>>
    /\ extInfos = <<>>
    /\ gerr = "nil"
    /\ wb = 0
    /\ synced = {}
    /\ failedBatch = {}

\* GetCombinedTransactions has not been called
MergeIdle ==
    /\ cardTxns = <<>>
    /\ linkedTxns = <<>>
    /\ opts = <<>>
    /\ mpc = "idle"
    /\ combined = <<>>
    /\ totalCount = 0

\* the database is migrated, no session is saved, nothing is running
SetupIdle ==
    /\ schema_version = 1..schemaVersion
    /\ schema = 1..schemaVersion
    /\ currentVersion = 0
    /\ migI = 0
    /\ mgpc = "idle"
    /\ ran = <<>>
    /\ SessionFile = "session.json"
    /\ savedSession = <<>>
    /\ ClientID = ""
    /\ Jar = {}
    /\ now = 0
    /\ lpc = "idle"
    /\ loaded = <<>>

Init == StartState /\ MergeIdle /\ SetupIdle /\ remote = UnstableRemote

InitStable ==
    StartState /\ MergeIdle /\ SetupIdle /\ remote \in StableRemotes

InitRevising ==
    StartState /\ MergeIdle /\ SetupIdle /\ remote = RevisingRemote

InitStableAccount ==
    StartState /\ MergeIdle /\ SetupIdle /\ remote \in StableAccountRemotes

\* the n-th record of a large page of new linked-account records
BatchTxn(n) == Transaction("e" \o ToString(n), "d1")

\* syncCardAccountTransactions of Card1 on an empty store has inserted one
\* page of n new records and enters fetchAndStoreExtendedInfo
InitEnrich ==
    \E n \in 1..MaxBatch :
       LET txns == [i \in 1..n |-> BatchTxn(i)]
       IN  /\ card_transactions = EmptyBag
           /\ card_linked_account_transactions =
                  InsertLinkedAccountTransactions(EmptyBag, Card1.ID, txns,
                                                  FALSE).table
           /\ account_transactions = EmptyBag
           /\ remote = UnstableRemote
           /\ products = <<Card1>>
           /\ pc = "enrich"
           /\ err = "nil"
           /\ resp = <<>>
           /\ existingCardKeys = {}
           /\ existingKeys = {}
           /\ existingIDs = {}
           /\ hasNext = FALSE
           /\ page = 0
           /\ allExist = FALSE
           /\ allNewTxns = txns
           /\ status = [i \in 1..n |-> "pending"]
           /\ extInfos = <<>>
           /\ gerr = "nil"
           /\ wb = 0
           /\ synced = {}
           /\ failedBatch = {}
           /\ MergeIdle
           /\ SetupIdle

(***************************************************************************)
(* cmd: the sync command                                                   *)
(***************************************************************************)
\* the locals of a returned function are gone
ResetLoop ==
    /\ resp' = <<>>
    /\ existingCardKeys' = {}
    /\ existingKeys' = {}
    /\ existingIDs' = {}
    /\ hasNext' = FALSE
    /\ page' = 0
    /\ allExist' = FALSE

\* syncCard returns e before the enrichment was started
Return(e) ==
    /\ pc' = "done"
    /\ err' = e
    /\ ResetLoop
    /\ allNewTxns' = <<>>
    /\ UNCHANGED <<remote, products, groupVars, synced, failedBatch>>

\* RunE: resp.Data.AccountsAndCards arrives and the product loop starts
StartSync ==
    /\ UNCHANGED <<mergeVars, setupVars>>
    /\ pc = "idle"
    /\ \E ps \in GetAccountsAndCards(remote) :
          /\ products' = ps
          /\ pc' = FirstPc(Head(ps))
    /\ UNCHANGED <<storeVars, remote, err, loopVars, allNewTxns, groupVars, synced, failedBatch>>

\* syncCard: read the existing keys, fetch the card feed
FetchCard ==
    /\ UNCHANGED <<mergeVars, setupVars>>
    /\ pc = "card_fetch"
    /\ \/ /\ Return("getting existing card keys")
          /\ UNCHANGED storeVars
       \/ /\ Return("fetching card transactions")
          /\ UNCHANGED storeVars
       \/ /\ existingCardKeys' = GetExistingCardTxnKeys(card_transactions, cardID)
          /\ \E entries \in GetTransactions(remote, cardID) : resp' = entries
          /\ pc' = "card_resp"
          /\ UNCHANGED <<storeVars, remote, products, err, existingKeys,
                         existingIDs, hasNext, page, allExist, allNewTxns,
                         groupVars, synced, failedBatch>>

\* syncCard: the entries whose key is not in existingCardKeys
NewCardTxns(entries, existing) ==
    SelectSeq(entries, LAMBDA t : TxnKey(t.ID, t.OperationDate) \notin existing)

\* syncCard: what follows the card feed
AfterCardFeed ==
    IF cur.AccountID # ""
    THEN \/ /\ Return("getting existing linked account keys")
         \/ /\ existingKeys' = GetExistingLinkedAccountTxnKeys(
                                    card_linked_account_transactions, cardID)
            /\ page' = 0
            /\ allNewTxns' = <<>>
            /\ allExist' = FALSE
            /\ resp' = <<>>
            /\ existingCardKeys' = {}
            /\ pc' = "linked_fetch"
            /\ UNCHANGED <<remote, products, err, existingIDs, hasNext,
                           groupVars, synced, failedBatch>>
    ELSE Return("nil")

\* syncCard: filter the new card transactions and insert them as one batch
ProcessCard ==
    /\ UNCHANGED <<mergeVars, setupVars>>
    /\ pc = "card_resp"
    /\ UNCHANGED <<card_linked_account_transactions, account_transactions>>
    /\ LET newTxns == NewCardTxns(resp, existingCardKeys)
       IN  IF Len(newTxns) > 0
           THEN \E failed \in BOOLEAN :
                  LET r == InsertCardTransactions(card_transactions, cardID,
                                                  newTxns, failed)
                  IN  /\ card_transactions' = r.table
                      /\ IF r.err
                         THEN Return("inserting card transactions")
                         ELSE AfterCardFeed
           ELSE /\ UNCHANGED card_transactions
                /\ AfterCardFeed

\* syncCardAccountTransactions: fetch one page
FetchPage ==
    /\ UNCHANGED <<mergeVars, setupVars>>
    /\ pc = "linked_fetch"
    /\ UNCHANGED storeVars
    /\ \/ Return("fetching events/past page")
       \/ /\ \E entries \in GetEventsPast(remote, cur.AccountID, PageSize, page) :
                resp' = entries
          /\ pc' = "linked_resp"
          /\ UNCHANGED <<remote, products, err, existingCardKeys, existingKeys,
                         existingIDs, hasNext, page, allExist, allNewTxns,
                         groupVars, synced, failedBatch>>

ScanPageKeepsAll(entries, known, new) ==
    [newTxns |-> new \o entries,
     existingKeys |-> known \cup {TxnKey(entries[i].ID,
                                         entries[i].OperationDate) :
                                     i \in DOMAIN entries}]

\* the scan tests every record against the keys known before the page
ScanPageForgetsKeys(entries, known, new) ==
    [newTxns |-> new \o SelectSeq(entries,
                            LAMBDA t : TxnKey(t.ID, t.OperationDate) \notin known),
     existingKeys |-> known]

\* syncCardAccountTransactions: the scan of one page; a key is marked as seen
\* as soon as it is met, so a record repeated on the page is new only once
RECURSIVE ScanPage(_, _, _)
ScanPage(entries, known, new) ==
    IF entries = <<>> THEN [newTxns |-> new, existingKeys |-> known]
    ELSE LET t == Head(entries)
             key == TxnKey(t.ID, t.OperationDate)
         IN  IF key \notin known
             THEN ScanPage(Tail(entries), known \cup {key}, Append(new, t))
             ELSE ScanPage(Tail(entries), known, new)

\* the loop ends without the all-known test
StopOnShortPageOnly(entries, allKnown) == Len(entries) < PageSize

\* syncCardAccountTransactions: the break after a page
StopAfterPage(entries, allKnown) == Len(entries) < PageSize \/ allKnown

\* syncCardAccountTransactions: process the fetched page
ProcessPage ==
    /\ UNCHANGED <<mergeVars, setupVars>>
    /\ pc = "linked_resp"
    /\ UNCHANGED <<card_transactions, account_transactions>>
    /\ IF Len(resp) = 0
       THEN /\ pc' = "linked_done"
            /\ UNCHANGED <<card_linked_account_transactions, remote, products,
                           err, loopVars, allNewTxns, groupVars, synced, failedBatch>>
       ELSE LET scan == ScanPage(resp, existingKeys, <<>>)
                newTxns == scan.newTxns
                exist == (newTxns = <<>>)
            IN  \E failed \in (IF Len(newTxns) > 0 THEN BOOLEAN ELSE {FALSE}) :
                  LET r == InsertLinkedAccountTransactions(
                               card_linked_account_transactions, cardID,
                               newTxns, failed)
                  IN  /\ card_linked_account_transactions' = r.table
                      /\ IF r.err
                         THEN Return("inserting linked account transactions")
                         ELSE /\ existingKeys' = scan.existingKeys
                              /\ allExist' = exist
                              /\ allNewTxns' = allNewTxns \o newTxns
                              /\ IF StopAfterPage(resp, exist)
                                 THEN pc' = "linked_done" /\ page' = page
                                 ELSE pc' = "linked_fetch" /\ page' = page + 1
                              /\ UNCHANGED <<remote, products, err, resp,
                                             existingCardKeys, existingIDs,
                                             hasNext, groupVars, synced, failedBatch>>

\* syncCardAccountTransactions: after the loop, enrich what this run collected
AfterLoop ==
    /\ UNCHANGED <<mergeVars, setupVars>>
    /\ pc = "linked_done"
    /\ UNCHANGED storeVars
    /\ IF Len(allNewTxns) > 0
       THEN /\ pc' = "enrich"
            /\ ResetLoop
            /\ status' = [i \in 1..Len(allNewTxns) |-> "pending"]
            /\ extInfos' = <<>>
            /\ gerr' = "nil"
            /\ wb' = 0
            /\ UNCHANGED <<remote, products, err, allNewTxns, synced, failedBatch>>
       ELSE Return("nil")

(***************************************************************************)
(* cmd: fetchAndStoreExtendedInfo(database, c, accessToken, cardID, txns)  *)
(* with txns = allNewTxns.  The errgroup's context is discarded, so        *)
(* nothing observes its cancellation.                                      *)
(***************************************************************************)
Running == {i \in DOMAIN status : status[i] = "running"}
Pending == {i \in DOMAIN status : status[i] = "pending"}

\* the semaphore admits one goroutine too many
AdmitsOneMore(active) == active <= Limit

\* the semaphore of the errgroup admits a goroutine
Admits(active) == active < Limit

\* for i := range txns { g.Go(...) }: the next goroutine starts its lookup;
\* g.Go blocks while Limit goroutines are active
GoLookup ==
    /\ UNCHANGED <<mergeVars, setupVars>>
    /\ pc = "enrich"
    /\ Pending # {}
    /\ Admits(Cardinality(Running))
    /\ LET idx == CHOOSE i \in Pending : \A j \in Pending : i <= j
       IN  status' = [status EXCEPT ![idx] = "running"]
    /\ UNCHANGED <<storeVars, remote, products, pc, err, loopVars, allNewTxns,
                   extInfos, gerr, wb, synced, failedBatch>>

\* GetTransactionDetails succeeds: the result is appended under the mutex
LookupOK ==
    /\ UNCHANGED <<mergeVars, setupVars>>
    /\ pc = "enrich"
    /\ \E idx \in Running :
          /\ status' = [status EXCEPT ![idx] = "ok"]
          /\ extInfos' = Append(extInfos,
                                [txnID |-> allNewTxns[idx].ID,
                                 operationDate |-> allNewTxns[idx].OperationDate,
                                 ext |-> ExtInfo])
    /\ UNCHANGED <<storeVars, remote, products, pc, err, loopVars, allNewTxns,
                   gerr, wb, synced, failedBatch>>

\* GetTransactionDetails fails: the goroutine returns the error, the group
\* keeps the first one
LookupFail ==
    /\ UNCHANGED <<mergeVars, setupVars>>
    /\ pc = "enrich"
    /\ \E idx \in Running : status' = [status EXCEPT ![idx] = "failed"]
    /\ gerr' = IF gerr = "nil" THEN "fetching extended info for txn" ELSE gerr
    /\ UNCHANGED <<storeVars, remote, products, pc, err, loopVars, allNewTxns,
                   extInfos, wb, synced, failedBatch>>

\* the transactions of the batch that are rows of the product without
\* extended info
LeftByBatch ==
    {<<cardID, allNewTxns[i]>> : i \in
        {j \in DOMAIN allNewTxns :
            Transaction(allNewTxns[j].ID, allNewTxns[j].OperationDate)
              \in GetTransactionsNeedingExtendedInfo(
                                 card_linked_account_transactions, cardID)}}

\* Wait returns as soon as the group has an error
WaitReturnsOnError(st, e) ==
    e # "nil" \/ \A i \in DOMAIN st : st[i] # "running"

\* g.Wait() blocks until all function calls from the Go method have returned
WaitReturns(st, e) == \A i \in DOMAIN st : st[i] # "running"

\* g.Wait() returns once every goroutine has been started and has returned
Wait ==
    /\ UNCHANGED <<mergeVars, setupVars>>
    /\ pc = "enrich"
    /\ Pending = {}
    /\ WaitReturns(status, gerr)
    /\ IF gerr # "nil"
       THEN /\ pc' = "done"
            /\ err' = gerr
            /\ wb' = wb
       ELSE /\ pc' = "store"
            /\ err' = err
            /\ wb' = 1
    /\ failedBatch' = IF gerr # "nil" THEN failedBatch \cup LeftByBatch
                       ELSE failedBatch
    /\ UNCHANGED <<storeVars, remote, products, loopVars, allNewTxns, status,
                   extInfos, gerr, synced>>

\* for _, info := range extInfos { database.UpdateTransactionExtendedInfo(...) }
StoreExtendedInfo ==
    /\ UNCHANGED <<mergeVars, setupVars>>
    /\ pc = "store"
    /\ UNCHANGED <<card_transactions, account_transactions, remote, products,
                   loopVars, allNewTxns, status, extInfos, gerr, synced>>
    /\ IF wb > Len(extInfos)
       THEN /\ pc' = "done"
            /\ err' = "nil"
            /\ UNCHANGED <<card_linked_account_transactions, wb, failedBatch>>
       ELSE \/ /\ pc' = "done"
               /\ err' = "storing extended info"
               /\ failedBatch' = failedBatch \cup LeftByBatch
               /\ UNCHANGED <<card_linked_account_transactions, wb>>
            \/ /\ UNCHANGED failedBatch
               /\ card_linked_account_transactions' =
                      UpdateTransactionExtendedInfo(
                          card_linked_account_transactions, cardID,
                          extInfos[wb].txnID, extInfos[wb].operationDate,
                          extInfos[wb].ext)
               /\ wb' = wb + 1
               /\ UNCHANGED <<pc, err>>

(***************************************************************************)
(* cmd: syncAccount                                                        *)
(***************************************************************************)
\* syncAccount: read the existing ids
BeginAccount ==
    /\ UNCHANGED <<mergeVars, setupVars>>
    /\ pc = "account_begin"
    /\ UNCHANGED storeVars
    /\ \/ Return("getting existing IDs")
       \/ /\ existingIDs' = GetExistingAccountTxnIDs(account_transactions,
                                                     accountID)
          /\ page' = 0
          /\ pc' = "account_fetch"
          /\ UNCHANGED <<remote, products, err, resp, existingCardKeys,
                         existingKeys, hasNext, allExist, allNewTxns,
                         groupVars, synced, failedBatch>>

\* syncAccount: fetch one page
FetchHistory ==
    /\ UNCHANGED <<mergeVars, setupVars>>
    /\ pc = "account_fetch"
    /\ UNCHANGED storeVars
    /\ \/ Return("fetching history page")
       \/ /\ \E r \in GetAccountHistory(remote, accountID, PageSize, page) :
                /\ resp' = r.Transactions
                /\ hasNext' = r.HasNext
          /\ pc' = "account_resp"
          /\ UNCHANGED <<remote, products, err, existingCardKeys, existingKeys,
                         existingIDs, page, allExist, allNewTxns, groupVars,
                         synced, failedBatch>>

ScanHistoryKeepsAll(entries, known, new) ==
    [newTxns |-> new \o entries,
     existingIDs |-> known \cup {entries[i].ID : i \in DOMAIN entries}]

\* syncAccount: the scan of one page, by plain id
RECURSIVE ScanHistory(_, _, _)
ScanHistory(entries, known, new) ==
    IF entries = <<>> THEN [newTxns |-> new, existingIDs |-> known]
    ELSE LET t == Head(entries)
         IN  IF t.ID \notin known
             THEN ScanHistory(Tail(entries), known \cup {t.ID}, Append(new, t))
             ELSE ScanHistory(Tail(entries), known, new)

StopOnFlagOnly(more, allKnown) == ~more

\* syncAccount: the break after a page
StopAfterHistory(more, allKnown) == ~more \/ allKnown

\* syncAccount: process the fetched page
ProcessHistory ==
    /\ UNCHANGED <<mergeVars, setupVars>>
    /\ pc = "account_resp"
    /\ UNCHANGED <<card_transactions, card_linked_account_transactions>>
    /\ IF Len(resp) = 0
       THEN /\ pc' = "account_done"
            /\ UNCHANGED <<account_transactions, remote, products, err,
                           loopVars, allNewTxns, groupVars, synced, failedBatch>>
       ELSE LET scan == ScanHistory(resp, existingIDs, <<>>)
                newTxns == scan.newTxns
                exist == (newTxns = <<>>)
            IN  \E failed \in (IF Len(newTxns) > 0 THEN BOOLEAN ELSE {FALSE}) :
                  LET r == InsertAccountTransactions(account_transactions,
                                                     accountID, newTxns, failed)
                  IN  /\ account_transactions' = r.table
                      /\ IF r.err
                         THEN Return("inserting transactions")
                         ELSE /\ existingIDs' = scan.existingIDs
                              /\ allExist' = exist
                              /\ IF StopAfterHistory(hasNext, exist)
                                 THEN pc' = "account_done" /\ page' = page
                                 ELSE pc' = "account_fetch" /\ page' = page + 1
                              /\ UNCHANGED <<remote, products, err, resp,
                                             existingCardKeys, existingKeys,
                                             hasNext, allNewTxns, groupVars,
                                             synced, failedBatch>>

\* syncAccount: after the loop
AfterHistory ==
    /\ UNCHANGED <<mergeVars, setupVars>>
    /\ pc = "account_done"
    /\ UNCHANGED storeVars
    /\ Return("nil")

\* RunE returns the error of a product instead of reporting it
FinishAborts ==
    /\ UNCHANGED <<mergeVars, setupVars>>
    /\ pc = "done"
    /\ products' = IF err = "nil" THEN Tail(products) ELSE <<>>
    /\ pc' = IF products' = <<>> THEN "idle" ELSE FirstPc(Head(products'))
    /\ synced' = IF remote.mode = "stable" /\ err = "nil"
                 THEN synced \cup {cur} ELSE synced
    /\ err' = "nil"
    /\ allNewTxns' = <<>>
    /\ status' = <<>>
    /\ extInfos' = <<>>
    /\ gerr' = "nil"
    /\ wb' = 0
    /\ UNCHANGED <<storeVars, remote, loopVars, failedBatch>>

\* RunE: a failed product is reported and the loop goes on with the next one
Finish ==
    /\ UNCHANGED <<mergeVars, setupVars>>
    /\ pc = "done"
    /\ products' = Tail(products)
    /\ pc' = IF Tail(products) = <<>> THEN "idle"
             ELSE FirstPc(Head(Tail(products)))
    /\ synced' = IF remote.mode = "stable" /\ err = "nil"
                 THEN synced \cup {cur} ELSE synced
    /\ err' = "nil"
    /\ allNewTxns' = <<>>
    /\ status' = <<>>
    /\ extInfos' = <<>>
    /\ gerr' = "nil"
    /\ wb' = 0
    /\ UNCHANGED <<storeVars, remote, loopVars, failedBatch>>


\* the steps of syncCard
NextCard ==
    \/ StartSync
    \/ FetchCard
    \/ ProcessCard
    \/ FetchPage
    \/ ProcessPage
    \/ AfterLoop
    \/ GoLookup
    \/ LookupOK
    \/ LookupFail
    \/ Wait
    \/ StoreExtendedInfo
    \/ Finish

\* the steps of syncAccount
NextAccount ==
    \/ BeginAccount
    \/ FetchHistory
    \/ ProcessHistory
    \/ AfterHistory

\* the steps of fetchAndStoreExtendedInfo
NextEnrich ==
    \/ GoLookup
    \/ LookupOK
    \/ LookupFail
    \/ Wait
    \/ StoreExtendedInfo

Next == NextCard \/ NextAccount

\* any remote
Spec == Init /\ [][Next]_vars

\* a remote whose output never changes
SpecStable == InitStable /\ [][NextCard]_vars

\* a remote that revises the records it has returned
SpecRevising == InitRevising /\ [][Next]_vars

\* a customer with one account and a history feed that never changes
SpecStableAccount ==
    InitStableAccount /\ [][StartSync \/ NextAccount \/ Finish]_vars

\* fetchAndStoreExtendedInfo alone, on a batch of up to MaxBatch transactions
\* that the run has just inserted
SpecEnrich == InitEnrich /\ [][NextEnrich]_vars

(***************************************************************************)
(* A second sync run of the same product on the same store.  Each insert   *)
(* batch is one transaction, so of the other run this run sees only the    *)
(* batches it commits.  They are placed between this run's read of the     *)
(* existing keys and its inserts; a batch committed before the read is to  *)
(* this run a batch of an earlier run.                                     *)
(***************************************************************************)
\* the other run commits InsertCardTransactions(cardID, newTxns)
OtherRunInsertsCard ==
    /\ UNCHANGED <<mergeVars, setupVars>>
    /\ pc = "card_resp"
    /\ \E txns \in SeqUpTo(RevisedCardFeedTxns, MaxCardLen) :
          /\ Len(txns) > 0
          /\ card_transactions' =
                 InsertCardTransactions(card_transactions, cardID, txns,
                                        FALSE).table
    /\ UNCHANGED <<card_linked_account_transactions, account_transactions,
                   remote, products, pc, err, loopVars, allNewTxns, groupVars,
                   synced, failedBatch>>

\* the other run commits InsertLinkedAccountTransactions(cardID, newTxns)
OtherRunInsertsLinked ==
    /\ UNCHANGED <<mergeVars, setupVars>>
    /\ pc \in {"linked_fetch", "linked_resp"}
    /\ \E txns \in SeqUpTo(RevisedLinkedFeedTxns, PageSize) :
          /\ Len(txns) > 0
          /\ card_linked_account_transactions' =
                 InsertLinkedAccountTransactions(
                     card_linked_account_transactions, cardID, txns,
                     FALSE).table
    /\ UNCHANGED <<card_transactions, account_transactions, remote, products,
                   pc, err, loopVars, allNewTxns, groupVars, synced, failedBatch>>

SpecConcurrent ==
    InitRevising
       /\ [][Next \/ OtherRunInsertsCard \/ OtherRunInsertsLinked]_vars

(***************************************************************************)
(* db: GetCombinedTransactions (combined_txn.go).  Times are counted in    *)
(* steps of 10 s from 2024-01-01T10:00:00Z; every date of the model lies   *)
(* on that grid.                                                           *)
(***************************************************************************)
MaxCards == 2     \* card records read by one call
MaxLinked == 3    \* linked-account records read by one call
MaxSize == 4      \* opts.Size
MaxPage == 2      \* opts.Page, besides the two large pages of Pages

\* the operationDate strings of the model in the order of their text (the
\* order ORDER BY operation_date compares), each with what
\* time.Parse(time.RFC3339, s) gives: a time, or an error
Dates ==
    << [s |-> "1700-01-01T00:00:00Z", ok |-> TRUE,  t |-> -1022443920],
       [s |-> "2024-01-01T10:00:00Z", ok |-> TRUE,  t |-> 0],
       [s |-> "2024-01-01T10:00:10Z", ok |-> TRUE,  t |-> 1],
       [s |-> "2024-01-01T10:00:20Z", ok |-> TRUE,  t |-> 2],
       [s |-> "2024-01-01T10:01:00Z", ok |-> TRUE,  t |-> 6],
       [s |-> "2024-01-01T10:01:30Z", ok |-> TRUE,  t |-> 9],
       [s |-> "not-a-date",           ok |-> FALSE, t |-> 0] >>

DateIndex(s) == CHOOSE i \in DOMAIN Dates : Dates[i].s = s

\* time.Parse(time.RFC3339, s)
Parse(s) == [err |-> ~Dates[DateIndex(s)].ok, t |-> Dates[DateIndex(s)].t]

\* time.Duration is an int64 of nanoseconds: the largest and the smallest
\* duration, 2^63 - 1 ns and -2^63 ns, in steps of 10 s (both round to the
\* same grid point, 292 years away)
maxDuration == 922337204
minDuration == -922337204

\* time.Minute
timeTolerance == 6

\* t.Sub(u): the difference, or the largest or smallest duration when the
\* difference does not fit
Sub(t, u) ==
    IF t - u > maxDuration THEN maxDuration
    ELSE IF t - u < minDuration THEN minDuration
    ELSE t - u

\* -d on an int64: the smallest duration has no positive counterpart
Neg(d) == IF d = minDuration THEN minDuration ELSE -d

\* ti.Before(tj) for the results of two time.Parse calls whose errors are
\* ignored: a failed parse leaves the zero Time (year 1), which is before
\* every date of the model
Before(pi, pj) ==
    IF pi.err THEN ~pj.err
    ELSE IF pj.err THEN FALSE
    ELSE pi.t < pj.t

\* client.Transaction with the fields the merge reads
Txn(id, operationDate, currency, amount, transactionType) ==
    [ID |-> id, OperationDate |-> operationDate,
     Amount |-> [Currency |-> currency, Amount |-> amount],
     TransactionType |-> transactionType]

\* rows of card_transactions of the product
StoredCardTxns ==
    { Txn("c1", "2024-01-01T10:00:00Z", "AMD", 500, "purchase"),
      Txn("c2", "2024-01-01T10:00:10Z", "AMD", 500, "purchase"),
      Txn("c3", "1700-01-01T00:00:00Z", "AMD", 500, "purchase"),
      Txn("c4", "not-a-date",           "AMD", 500, "purchase") }

\* rows of card_linked_account_transactions of the product
StoredLinkedTxns ==
    { Txn("l1", "2024-01-01T10:00:20Z", "AMD", 500, "transfer:to-card"),
      Txn("l2", "2024-01-01T10:01:00Z", "AMD", 500, "card"),
      Txn("l3", "2024-01-01T10:01:30Z", "AMD", 500, "transfer:local"),
      Txn("l4", "2024-01-01T10:00:20Z", "USD", 500, "exchange"),
      Txn("l5", "2024-01-01T10:00:00Z", "AMD", 700, "cash-out"),
      Txn("l6", "not-a-date",           "AMD", 500,
          "transfer:between-own-accounts"),
      Txn("l7", "2024-01-01T10:01:30Z", "AMD", 700, "fee"),
      Txn("l8", "1700-01-01T00:00:00Z", "AMD", 500, "card") }

\* ORDER BY operation_date DESC: rows in non-increasing order of the text
\* of their date, rows of equal date in any order
OrderedDesc(rows) ==
    \A i, j \in DOMAIN rows :
        i < j => DateIndex(rows[i].OperationDate)
                     >= DateIndex(rows[j].OperationDate)

\* what a SELECT ... ORDER BY operation_date DESC can return for a table
\* holding up to n of the rows
SelectDesc(rows, n) ==
    { s \in SeqUpTo(rows, n) :
        /\ \A i, j \in DOMAIN s : i # j => s[i] # s[j]
        /\ OrderedDesc(s) }

\* GetCardTransactions(productID, 0, 0, false)
GetCardTransactions == SelectDesc(StoredCardTxns, MaxCards)

\* GetLinkedAccountTransactions(productID, 0, 0, ...)
GetLinkedAccountTransactions == SelectDesc(StoredLinkedTxns, MaxLinked)

\* A Go int of 64 bits, held as h * 2^60 + l with 0 <= h < 16 and
\* 0 <= l < 2^60; negative when its top bit is set.  The low parts the
\* model meets are small, so their sums and products stay below 2^60.
GoInt(h, l) == [h |-> h, l |-> l]

\* x * y and x + y modulo 2^64
Mul(x, y) == [h |-> (x.h * y.l + x.l * y.h) % 16, l |-> x.l * y.l]
Add(x, y) == [h |-> (x.h + y.h) % 16, l |-> x.l + y.l]

Negative(x) == x.h >= 8

\* x < y on signed 64-bit values
Less(x, y) ==
    IF Negative(x) # Negative(y) THEN Negative(x)
    ELSE x.h < y.h \/ (x.h = y.h /\ x.l < y.l)

\* opts.Page: the pages 0..MaxPage, 2^61 and 2^62
Pages == { GoInt(0, p) : p \in 0..MaxPage } \cup { GoInt(2, 0), GoInt(4, 0) }

\* CombinedTransactionsOptions without IncludeExtended, which only changes
\* the columns the linked records are read with
CombinedTransactionsOptions ==
    { [Size |-> GoInt(0, size), Page |-> p, Ascending |-> a] :
        size \in 0..MaxSize, p \in Pages, a \in BOOLEAN }

RealTimeTransactionTypesWithFee ==
    {"transfer:to-card", "transfer:local", "exchange", "cash-out",
     "transfer:between-own-accounts", "fee"}

RealTimeTransactionTypes ==
    {"transfer:to-card", "transfer:local", "exchange", "cash-out",
     "transfer:between-own-accounts"}

\* linkedByAmount[amount]: the linked records of that amount, as indexes
\* into linkedTxns in the order of the list; the map is keyed by
\* Amount.Amount alone
linkedByAmount(linked, amount) ==
    SelectSeq([i \in DOMAIN linked |-> i],
              LAMBDA i : linked[i].Amount.Amount = amount)

\* the loop over candidates: the index of the matched linked record, 0 for nil
RECURSIVE ClosestCandidate(_, _, _, _, _)
ClosestCandidate(candidates, linked, cardTime, matched, minDiff) ==
    IF candidates = <<>> THEN matched
    ELSE LET linkedTime == Parse(linked[Head(candidates)].OperationDate)
             d == Sub(cardTime, linkedTime.t)
             diff == IF d < 0 THEN Neg(d) ELSE d
         IN  IF linkedTime.err
             THEN ClosestCandidate(Tail(candidates), linked, cardTime,
                                   matched, minDiff)
             ELSE IF diff <= timeTolerance /\ diff < minDiff
             THEN ClosestCandidate(Tail(candidates), linked, cardTime,
                                   Head(candidates), diff)
             ELSE ClosestCandidate(Tail(candidates), linked, cardTime,
                                   matched, minDiff)

RECURSIVE MatchCardsIgnoringParseError(_, _, _, _)
MatchCardsIgnoringParseError(cards, linked, matchedLinked, result) ==
    IF cards = <<>> THEN [result |-> result, matchedLinked |-> matchedLinked]
    ELSE LET cardTxn == Head(cards)
             cardTime == Parse(cardTxn.OperationDate)
             matched ==
                 ClosestCandidate(linkedByAmount(linked, cardTxn.Amount.Amount),
                                  linked, cardTime.t, 0, timeTolerance + 1)
         IN  IF matched = 0
             THEN MatchCardsIgnoringParseError(Tail(cards), linked,
                                               matchedLinked,
                                               Append(result, cardTxn))
             ELSE MatchCardsIgnoringParseError(Tail(cards), linked,
                             matchedLinked \cup
                               {TxnKey(linked[matched].ID,
                                       linked[matched].OperationDate)},
                             Append(result, linked[matched]))

\* a card record without a match is not emitted
RECURSIVE MatchCardsDropsUnmatched(_, _, _, _)
MatchCardsDropsUnmatched(cards, linked, matchedLinked, result) ==
    IF cards = <<>> THEN [result |-> result, matchedLinked |-> matchedLinked]
    ELSE LET cardTxn == Head(cards)
             cardTime == Parse(cardTxn.OperationDate)
             matched ==
                 ClosestCandidate(linkedByAmount(linked, cardTxn.Amount.Amount),
                                  linked, cardTime.t, 0, timeTolerance + 1)
         IN  IF cardTime.err
             THEN MatchCardsDropsUnmatched(Tail(cards), linked, matchedLinked,
                                           Append(result, cardTxn))
             ELSE IF matched = 0
             THEN MatchCardsDropsUnmatched(Tail(cards), linked, matchedLinked,
                                           result)
             ELSE MatchCardsDropsUnmatched(Tail(cards), linked,
                             matchedLinked \cup
                               {TxnKey(linked[matched].ID,
                                       linked[matched].OperationDate)},
                             Append(result, linked[matched]))

\* the loop over the card records
RECURSIVE MatchCards(_, _, _, _)
MatchCards(cards, linked, matchedLinked, result) ==
    IF cards = <<>> THEN [result |-> result, matchedLinked |-> matchedLinked]
    ELSE LET cardTxn == Head(cards)
             cardTime == Parse(cardTxn.OperationDate)
             matched ==
                 ClosestCandidate(linkedByAmount(linked, cardTxn.Amount.Amount),
                                  linked, cardTime.t, 0, timeTolerance + 1)
         IN  IF cardTime.err \/ matched = 0
             THEN MatchCards(Tail(cards), linked, matchedLinked,
                             Append(result, cardTxn))
             ELSE MatchCards(Tail(cards), linked,
                             matchedLinked \cup
                               {TxnKey(linked[matched].ID,
                                       linked[matched].OperationDate)},
                             Append(result, linked[matched]))

\* the loop over the linked records
RECURSIVE AddUnmatched(_, _, _)
AddUnmatched(linked, matchedLinked, result) ==
    IF linked = <<>> THEN result
    ELSE LET l == Head(linked)
         IN  IF TxnKey(l.ID, l.OperationDate) \in matchedLinked
             THEN AddUnmatched(Tail(linked), matchedLinked, result)
             ELSE IF l.TransactionType = "card"
             THEN AddUnmatched(Tail(linked), matchedLinked, result)
             ELSE IF l.TransactionType \in RealTimeTransactionTypes
             THEN AddUnmatched(Tail(linked), matchedLinked, Append(result, l))
             ELSE AddUnmatched(Tail(linked), matchedLinked, result)

mergeTransactions(cards, linked) ==
    LET m == MatchCards(cards, linked, {}, <<>>)
    IN  AddUnmatched(linked, m.matchedLinked, m.result)

\* less of sortTransactions
less(a, b, ascending) ==
    IF ascending
    THEN Before(Parse(a.OperationDate), Parse(b.OperationDate))
    ELSE Before(Parse(b.OperationDate), Parse(a.OperationDate))

\* the rearrangements of txns
Rearrangements(txns) ==
    { [i \in DOMAIN txns |-> txns[p[i]]] : p \in Permutations(DOMAIN txns) }

sortTransactionsKeepsOrder(txns, ascending) == {txns}

\* sort.Slice is not stable: txns can end in any rearrangement in which no
\* record is less than one before it
sortTransactions(txns, ascending) ==
    { s \in Rearrangements(txns) :
        \A i, j \in DOMAIN s : i < j => ~less(s[j], s[i], ascending) }

\* the pagination of GetCombinedTransactions: the slice expression
\* combined[offset:end] panics on a negative offset
Slice(sorted, o) ==
    LET len == GoInt(0, Len(sorted))
        offset == Mul(o.Page, o.Size)
        sum == Add(offset, o.Size)
        end == IF Less(len, sum) THEN len ELSE sum
        panic == Less(GoInt(0, 0), o.Size) /\ Less(offset, len)
                   /\ (Negative(offset) \/ Less(end, offset))
    IN  [panic |-> panic,
         combined |-> IF ~Less(GoInt(0, 0), o.Size) THEN sorted
                      ELSE IF ~Less(offset, len) \/ panic THEN <<>>
                      ELSE SubSeq(sorted, offset.l + 1, end.l)]

PageOfCountsPage(sorted, o) ==
    [panic |-> Slice(sorted, o).panic,
     combined |-> Slice(sorted, o).combined,
     totalCount |-> Len(Slice(sorted, o).combined)]

\* GetCombinedTransactions after the sort: totalCount := len(combined),
\* then the page
PageOf(sorted, o) ==
    [panic |-> Slice(sorted, o).panic,
     combined |-> Slice(sorted, o).combined,
     totalCount |-> Len(sorted)]

\* GetCombinedTransactions(productID, opts) is called
InitMerge ==
    /\ StartState
    /\ SetupIdle
    /\ remote = UnstableRemote
    /\ cardTxns = <<>>
    /\ linkedTxns = <<>>
    /\ opts \in CombinedTransactionsOptions
    /\ mpc = "read"
    /\ combined = <<>>
    /\ totalCount = 0

\* the two reads
ReadTransactions ==
    /\ mpc = "read"
    /\ cardTxns' \in GetCardTransactions
    /\ linkedTxns' \in GetLinkedAccountTransactions
    /\ mpc' = "merge"
    /\ UNCHANGED <<opts, combined, totalCount>>
    /\ UNCHANGED <<storeVars, remote, products, pc, err, loopVars, allNewTxns,
                   groupVars, synced, failedBatch, setupVars>>

\* one of the two reads fails: the call returns nil, 0 and the error
ReadFails ==
    /\ mpc = "read"
    /\ mpc' = "error"
    /\ UNCHANGED <<cardTxns, linkedTxns, opts, combined, totalCount>>
    /\ UNCHANGED <<storeVars, remote, products, pc, err, loopVars, allNewTxns,
                   groupVars, synced, failedBatch, setupVars>>

\* combined := mergeTransactions(cardTxns, linkedTxns)
MergeTransactions ==
    /\ mpc = "merge"
    /\ combined' = mergeTransactions(cardTxns, linkedTxns)
    /\ mpc' = "sort"
    /\ UNCHANGED <<cardTxns, linkedTxns, opts, totalCount>>
    /\ UNCHANGED <<storeVars, remote, products, pc, err, loopVars, allNewTxns,
                   groupVars, synced, failedBatch, setupVars>>

\* sortTransactions(combined, opts.Ascending)
SortTransactions ==
    /\ mpc = "sort"
    /\ combined' \in sortTransactions(combined, opts.Ascending)
    /\ mpc' = "page"
    /\ UNCHANGED <<cardTxns, linkedTxns, opts, totalCount>>
    /\ UNCHANGED <<storeVars, remote, products, pc, err, loopVars, allNewTxns,
                   groupVars, synced, failedBatch, setupVars>>

\* totalCount, the pagination and the return
Paginate ==
    /\ mpc = "page"
    /\ LET r == PageOf(combined, opts)
       IN  /\ combined' = r.combined
           /\ totalCount' = IF r.panic THEN 0 ELSE r.totalCount
           /\ mpc' = IF r.panic THEN "panic" ELSE "return"
    /\ UNCHANGED <<cardTxns, linkedTxns, opts>>
    /\ UNCHANGED <<storeVars, remote, products, pc, err, loopVars, allNewTxns,
                   groupVars, synced, failedBatch, setupVars>>

NextMerge == ReadTransactions \/ ReadFails \/ MergeTransactions
                 \/ SortTransactions \/ Paginate

SpecMerge == InitMerge /\ [][NextMerge]_vars

(***************************************************************************)
(* db: GetLinkedAccountTransactions(productID, 0, 0, includeExtended) on   *)
(* a table that syncs and enrichments have filled.  The six extended       *)
(* columns are one value: "NULL" before the write-back, afterwards the     *)
(* text the remote gave, which can be empty.                               *)
(***************************************************************************)
\* extended info the write-back can have stored: all fields empty, or not
ExtInfos == {"", ExtInfo}

\* the linked-account records a card can have stored
ReadTxns ==
    {Transaction("t1", "d1"), Transaction("t1", "d2"), Transaction("t2", "d1")}

\* the table after the records of txns were inserted for the card and the
\* write-back has stored e[t] for the records t of its domain
RECURSIVE WrittenBack(_, _, _)
WrittenBack(table, productID, e) ==
    IF DOMAIN e = {} THEN table
    ELSE LET t == CHOOSE x \in DOMAIN e : TRUE
         IN  WrittenBack(
                 UpdateTransactionExtendedInfo(table, productID, t.ID,
                                               t.OperationDate, e[t]),
                 productID, [x \in DOMAIN e \ {t} |-> e[x]])

\* the tables the reads start from
ReadTables ==
    UNION { UNION { { WrittenBack(SetToBag({LinkedRow(Card1.ID, t) : t \in S}),
                                  Card1.ID, e) :
                        e \in [F -> ExtInfos] } :
                    F \in SUBSET S } :
            S \in SUBSET ReadTxns }

\* sql.NullString.String: the empty text for NULL
NullStringString(v) == IF v = "NULL" THEN "" ELSE v

ScanByNullCheck(r, includeExtended) ==
    [ID |-> r.id, OperationDate |-> r.operation_date, Details |-> r.details,
     Extended |-> IF includeExtended /\ NullStringString(r.ext) # ""
                  THEN <<[BeneficiaryName |-> NullStringString(r.ext)]>>
                  ELSE <<>>]

\* rows.Scan and the test of extended_fetched: the record of one row; the
\* pointer Extended is the empty list when nil and holds the info otherwise
Scan(r, includeExtended) ==
    [ID |-> r.id, OperationDate |-> r.operation_date, Details |-> r.details,
     Extended |-> IF includeExtended /\ r.extended_fetched = 1
                  THEN <<[BeneficiaryName |-> NullStringString(r.ext)]>>
                  ELSE <<>>]

\* the place of an operation date of ReadTxns in the order of the texts
DateRank(d) == IF d = "d1" THEN 1 ELSE 2

\* SELECT ... WHERE product_id = ? ORDER BY operation_date DESC: the rows of
\* the product, one record each, rows of equal date in any order
SelectLinked(table, productID, includeExtended) ==
    LET rows == RowsOf(table, productID)
    IN  { s \in [1..Cardinality(rows) -> {Scan(r, includeExtended) : r \in rows}] :
            /\ \A i, j \in DOMAIN s : i # j => s[i] # s[j]
            /\ \A i, j \in DOMAIN s :
                  i < j => DateRank(s[i].OperationDate)
                              >= DateRank(s[j].OperationDate) }

\* GetLinkedAccountTransactions is called on a stored table
InitRead ==
    /\ SetupIdle
    /\ card_transactions = EmptyBag
    /\ card_linked_account_transactions \in ReadTables
    /\ account_transactions = EmptyBag
    /\ remote = UnstableRemote
    /\ products = <<>>
    /\ pc = "idle"
    /\ err = "nil"
    /\ resp = <<>>
    /\ existingCardKeys = {}
    /\ existingKeys = {}
    /\ existingIDs = {}
    /\ hasNext = FALSE
    /\ page = 0
    /\ allExist = FALSE
    /\ allNewTxns = <<>>
    /\ status = <<>>
    /\ extInfos = <<>>
    /\ gerr = "nil"
    /\ wb = 0
    /\ synced = {}
    /\ failedBatch = {}
    /\ cardTxns = <<>>
    /\ linkedTxns = <<>>
    /\ opts \in {[IncludeExtended |-> b] : b \in BOOLEAN}
    /\ mpc = "query"
    /\ combined = <<>>
    /\ totalCount = 0

\* the query and the scan of its rows succeed
ReadLinked ==
    /\ mpc = "query"
    /\ linkedTxns' \in SelectLinked(card_linked_account_transactions,
                                     Card1.ID, opts.IncludeExtended)
    /\ mpc' = "rows"
    /\ UNCHANGED <<cardTxns, opts, combined, totalCount>>
    /\ UNCHANGED <<storeVars, remote, products, pc, err, loopVars, allNewTxns,
                   groupVars, synced, failedBatch, setupVars>>

\* the query or a scan fails: nil and the error are returned
ReadLinkedFails ==
    /\ mpc = "query"
    /\ mpc' = "error"
    /\ UNCHANGED <<cardTxns, linkedTxns, opts, combined, totalCount>>
    /\ UNCHANGED <<storeVars, remote, products, pc, err, loopVars, allNewTxns,
                   groupVars, synced, failedBatch, setupVars>>

SpecRead == InitRead /\ [][ReadLinked \/ ReadLinkedFails]_vars

(***************************************************************************)
(* db: Migrate                                                             *)
(***************************************************************************)
\* migrations: of each entry, whether all its statements are guarded by
\* IF NOT EXISTS (version 4 is ALTER TABLE ... ADD COLUMN, which fails on a
\* column that exists)
migrations ==
    << [IfNotExists |-> TRUE], [IfNotExists |-> TRUE], [IfNotExists |-> TRUE],
       [IfNotExists |-> FALSE], [IfNotExists |-> TRUE] >>

\* the version is taken to be the index
VersionIsIndex(i) == i

\* version := i + 1
Version(i) == i + 1

\* SELECT COALESCE(MAX(version), 0) FROM schema_version
MaxVersion(table) ==
    IF table = {} THEN 0 ELSE CHOOSE v \in table : \A w \in table : w <= v

\* db.Exec(migrations[i]) can succeed on a database holding sch
CanExec(i, sch) == migrations[i + 1].IfNotExists \/ (i + 1) \notin sch

\* db.Open has created an empty database
InitMigrate ==
    /\ StartState
    /\ MergeIdle
    /\ remote = UnstableRemote
    /\ schema_version = {}
    /\ schema = {}
    /\ currentVersion = 0
    /\ migI = 0
    /\ mgpc = "idle"
    /\ ran = <<>>
    /\ SessionFile = "session.json"
    /\ savedSession = <<>>
    /\ ClientID = ""
    /\ Jar = {}
    /\ now = 0
    /\ lpc = "idle"
    /\ loaded = <<>>

\* Migrate is called (again)
MigrateCall ==
    /\ mgpc \in {"idle", "return", "error"}
    /\ mgpc' = "version"
    /\ ran' = <<>>
    /\ currentVersion' = 0
    /\ migI' = 0
    /\ UNCHANGED <<schema_version, schema>>
    /\ UNCHANGED <<storeVars, remote, products, pc, err, loopVars, allNewTxns,
                   groupVars, synced, failedBatch, mergeVars, sessionVars>>

\* CREATE TABLE IF NOT EXISTS schema_version, the SELECT, i := currentVersion
MigrateVersion ==
    /\ mgpc = "version"
    /\ currentVersion' = MaxVersion(schema_version)
    /\ migI' = currentVersion'
    /\ mgpc' = "loop"
    /\ UNCHANGED <<schema_version, schema, ran>>
    /\ UNCHANGED <<storeVars, remote, products, pc, err, loopVars, allNewTxns,
                   groupVars, synced, failedBatch, mergeVars, sessionVars>>

\* one of the two statements fails
MigrateVersionFails ==
    /\ mgpc = "version"
    /\ mgpc' = "error"
    /\ UNCHANGED <<schema_version, schema, currentVersion, migI, ran>>
    /\ UNCHANGED <<storeVars, remote, products, pc, err, loopVars, allNewTxns,
                   groupVars, synced, failedBatch, mergeVars, sessionVars>>

\* db.Exec(migrations[i]) succeeds
MigrateExec ==
    /\ mgpc = "loop"
    /\ migI < Len(migrations)
    /\ CanExec(migI, schema)
    /\ schema' = schema \cup {migI + 1}
    /\ ran' = Append(ran, migI + 1)
    /\ mgpc' = "record"
    /\ UNCHANGED <<schema_version, currentVersion, migI>>
    /\ UNCHANGED <<storeVars, remote, products, pc, err, loopVars, allNewTxns,
                   groupVars, synced, failedBatch, mergeVars, sessionVars>>

\* db.Exec(migrations[i]) fails, its earlier statements executed or not
MigrateExecFails ==
    /\ mgpc = "loop"
    /\ migI < Len(migrations)
    /\ schema' \in {schema, schema \cup {migI + 1}}
    /\ mgpc' = "error"
    /\ UNCHANGED <<schema_version, currentVersion, migI, ran>>
    /\ UNCHANGED <<storeVars, remote, products, pc, err, loopVars, allNewTxns,
                   groupVars, synced, failedBatch, mergeVars, sessionVars>>

\* INSERT INTO schema_version (version) VALUES (version); i++
MigrateRecord ==
    /\ mgpc = "record"
    /\ Version(migI) \notin schema_version
    /\ schema_version' = schema_version \cup {Version(migI)}
    /\ migI' = migI + 1
    /\ mgpc' = "loop"
    /\ UNCHANGED <<schema, currentVersion, ran>>
    /\ UNCHANGED <<storeVars, remote, products, pc, err, loopVars, allNewTxns,
                   groupVars, synced, failedBatch, mergeVars, sessionVars>>

\* the INSERT fails (always on a version the table holds: PRIMARY KEY)
MigrateRecordFails ==
    /\ mgpc = "record"
    /\ mgpc' = "error"
    /\ UNCHANGED <<schema_version, schema, currentVersion, migI, ran>>
    /\ UNCHANGED <<storeVars, remote, products, pc, err, loopVars, allNewTxns,
                   groupVars, synced, failedBatch, mergeVars, sessionVars>>

\* the loop ends: return nil
MigrateReturn ==
    /\ mgpc = "loop"
    /\ ~(migI < Len(migrations))
    /\ mgpc' = "return"
    /\ UNCHANGED <<schema_version, schema, currentVersion, migI, ran>>
    /\ UNCHANGED <<storeVars, remote, products, pc, err, loopVars, allNewTxns,
                   groupVars, synced, failedBatch, mergeVars, sessionVars>>

NextMigrate ==
    \/ MigrateCall
    \/ MigrateVersion
    \/ MigrateVersionFails
    \/ MigrateExec
    \/ MigrateExecFails
    \/ MigrateRecord
    \/ MigrateRecordFails
    \/ MigrateReturn

SpecMigrate == InitMigrate /\ [][NextMigrate]_vars

(***************************************************************************)
(* client: the saved session                                               *)
(***************************************************************************)
MaxNow == 4         \* the clock runs from 0 to MaxNow ticks
MaxExpiresIn == 4   \* expiresIn of a token, in ticks

\* t.Add(d)
TimeAdd(t, d) == t + d

\* t.After(u)
After(t, u) == t > u

\* SessionData; encoding/json writes a time.Time with its nanoseconds and
\* reads the same instant back
SessionData(accessToken, expiresAt, clientID, cookies) ==
    [AccessToken |-> accessToken, ExpiresAt |-> expiresAt,
     ClientID |-> clientID, Cookies |-> cookies]

\* the expiry test without the buffer
ExpiredNoBuffer(session, t) == After(t, session.ExpiresAt)

\* time.Now().Add(time.Minute).After(session.ExpiresAt)
Expired(session, t) == After(TimeAdd(t, Minute), session.ExpiresAt)

\* a client starts with or without a session file configured
InitSession ==
    /\ StartState
    /\ MergeIdle
    /\ remote = UnstableRemote
    /\ schema_version = 1..schemaVersion
    /\ schema = 1..schemaVersion
    /\ currentVersion = 0
    /\ migI = 0
    /\ mgpc = "idle"
    /\ ran = <<>>
    /\ SessionFile \in {"", "session.json"}
    /\ savedSession = <<>>
    /\ ClientID = ""
    /\ Jar = {}
    /\ now = 0
    /\ lpc = "idle"
    /\ loaded = <<>>

\* time passes
Tick ==
    /\ now < MaxNow
    /\ now' = now + 1
    /\ UNCHANGED <<SessionFile, savedSession, ClientID, Jar, lpc, loaded>>
    /\ UNCHANGED <<storeVars, remote, products, pc, err, loopVars, allNewTxns,
                   groupVars, synced, failedBatch, mergeVars, migrateVars>>

\* a login has set the client ID and the cookies and received a token:
\* SaveSession(accessToken, refreshToken, expiresIn)
SaveSession ==
    /\ lpc \in {"idle", "return", "error"}
    /\ \E clientID \in {"", "cid"}, cookies \in {{}, {"cookie"}},
          expiresIn \in 0..MaxExpiresIn :
          /\ ClientID' = clientID
          /\ Jar' = cookies
          /\ savedSession' =
                 IF SessionFile = "" THEN savedSession
                 ELSE << SessionData("token", TimeAdd(now, expiresIn),
                                     clientID, cookies) >>
    /\ UNCHANGED <<SessionFile, now, lpc, loaded>>
    /\ UNCHANGED <<storeVars, remote, products, pc, err, loopVars, allNewTxns,
                   groupVars, synced, failedBatch, mergeVars, migrateVars>>

\* a new Client calls LoadSession
LoadSessionCall ==
    /\ lpc \in {"idle", "return", "error"}
    /\ lpc' = "load"
    /\ ClientID' = ""
    /\ Jar' = {}
    /\ loaded' = <<>>
    /\ UNCHANGED <<SessionFile, savedSession, now>>
    /\ UNCHANGED <<storeVars, remote, products, pc, err, loopVars, allNewTxns,
                   groupVars, synced, failedBatch, mergeVars, migrateVars>>

\* LoadSession returns without an error
LoadSession ==
    /\ lpc = "load"
    /\ lpc' = "return"
    /\ IF SessionFile = "" \/ savedSession = <<>>
       THEN /\ loaded' = <<>>
            /\ UNCHANGED <<ClientID, Jar>>
       ELSE LET session == savedSession[1]
            IN  IF Expired(session, now)
                THEN /\ loaded' = <<>>
                     /\ UNCHANGED <<ClientID, Jar>>
                ELSE /\ Jar' = Jar \cup session.Cookies
                     /\ ClientID' = IF session.ClientID # ""
                                    THEN session.ClientID ELSE ClientID
                     /\ loaded' = <<session>>
    /\ UNCHANGED <<SessionFile, savedSession, now>>
    /\ UNCHANGED <<storeVars, remote, products, pc, err, loopVars, allNewTxns,
                   groupVars, synced, failedBatch, mergeVars, migrateVars>>

\* the file cannot be read or parsed: nil and the error
LoadSessionFails ==
    /\ lpc = "load"
    /\ SessionFile # ""
    /\ lpc' = "error"
    /\ UNCHANGED <<SessionFile, savedSession, ClientID, Jar, now, loaded>>
    /\ UNCHANGED <<storeVars, remote, products, pc, err, loopVars, allNewTxns,
                   groupVars, synced, failedBatch, mergeVars, migrateVars>>

NextSession ==
    \/ Tick
    \/ SaveSession
    \/ LoadSessionCall
    \/ LoadSession
    \/ LoadSessionFails

SpecSession == InitSession /\ [][NextSession]_vars

(***************************************************************************)
(* Properties.                                                             *)
(***************************************************************************)
Key(t) == TxnKey(t.ID, t.OperationDate)

\* the rows of a table with the id and operation date of t
RowsFor(table, t) ==
    {r \in BagToSet(table) : r.id = t.ID /\ r.operation_date = t.OperationDate}

\* C1: against a remote whose output does not change, a run of syncCard for
\* a product whose earlier run returned nil inserts no row: no step of the
\* run changes the card or the linked-account row count of the product.
C1_SecondRunInsertsNothing ==
    [][(products # <<>> /\ cur \in synced) =>
          /\ CountCardTransactions(card_transactions', cardID)
               = CountCardTransactions(card_transactions, cardID)
          /\ CountLinkedAccountTransactions(card_linked_account_transactions',
                                            cardID)
               = CountLinkedAccountTransactions(card_linked_account_transactions,
                                                cardID)]_vars

\* C1 witness: the second run of a product with card and linked-account rows
\* has returned nil.
C1_Witness ==
    /\ remote.mode = "stable"
    /\ pc = "done"
    /\ err = "nil"
    /\ cur \in synced
    /\ CountCardTransactions(card_transactions, cardID) > 0
    /\ CountLinkedAccountTransactions(card_linked_account_transactions, cardID) > 0

\* C2: whatever the remote returns, every table holds each row once, and no
\* two rows of the card and linked-account tables agree on (id,
\* operation_date), no two rows of the account table on id.
C2_AtMostOneRowPerKey ==
    /\ \A table \in {card_transactions, card_linked_account_transactions} :
          \A r \in BagToSet(table) :
             /\ table[r] = 1
             /\ \A q \in BagToSet(table) :
                   (q.id = r.id /\ q.operation_date = r.operation_date) => q = r
    /\ \A r \in BagToSet(account_transactions) :
          /\ account_transactions[r] = 1
          /\ \A q \in BagToSet(account_transactions) : q.id = r.id => q = r

\* C2 witness: a run has fetched a second page that overlaps the first and
\* repeats a record, and rows are stored.
C2_Witness ==
    /\ pc = "linked_done"
    /\ page > 0
    /\ Len(resp) = 2
    /\ resp[1] = resp[2]
    /\ BagCardinality(card_linked_account_transactions) = 2
    /\ BagCardinality(account_transactions) > 0
    /\ BagCardinality(card_transactions) > 0

\* C3: when a batch with two records of the same id and different operation
\* dates has been inserted for a product without error, both are rows of
\* the product and the existing-key lookup of the product reports both keys.
C3_SameIdTwoDatesBothStored ==
    [][/\ (pc = "card_resp" /\ err' = "nil") =>
            \A i, j \in DOMAIN resp :
               (resp[i].ID = resp[j].ID
                  /\ resp[i].OperationDate # resp[j].OperationDate) =>
                  /\ RowsFor(card_transactions', resp[i])
                        \cap RowsOf(card_transactions', cardID) # {}
                  /\ Key(resp[i]) \in
                        GetExistingCardTxnKeys(card_transactions', cardID)
       /\ (pc = "linked_resp" /\ pc' \in {"linked_fetch", "linked_done"}) =>
            \A i, j \in DOMAIN resp :
               (resp[i].ID = resp[j].ID
                  /\ resp[i].OperationDate # resp[j].OperationDate) =>
                  /\ RowsFor(card_linked_account_transactions', resp[i])
                        \cap RowsOf(card_linked_account_transactions', cardID)
                        # {}
                  /\ Key(resp[i]) \in GetExistingLinkedAccountTxnKeys(
                        card_linked_account_transactions', cardID)]_vars

\* C4: when the page just fetched is full and every key on it was known
\* before, the loop ends, and after the loop has ended the run fetches no
\* page any more.
C4_FullKnownPageStops ==
    [][/\ (/\ pc = "linked_resp"
           /\ Len(resp) = PageSize
           /\ \A i \in DOMAIN resp : Key(resp[i]) \in existingKeys)
          => pc' = "linked_done"
       /\ pc \in {"linked_done", "enrich", "store"}
          => pc' \notin {"linked_fetch", "linked_resp"}]_vars

\* C4 witness: the loop has ended on a full page of known records.
C4_Witness ==
    /\ pc = "linked_done"
    /\ Len(resp) = PageSize
    /\ allExist

\* C5: a page shorter than the page size ends the loop, and unless the
\* insert fails every record of it that was not known is then a row of the
\* product.
C5_ShortPageLastAndInserted ==
    [][(pc = "linked_resp" /\ Len(resp) < PageSize /\ pc' # "done") =>
          /\ pc' = "linked_done"
          /\ \A i \in DOMAIN resp :
                Key(resp[i]) \notin existingKeys =>
                   RowsFor(card_linked_account_transactions', resp[i])
                      \cap RowsOf(card_linked_account_transactions', cardID)
                      # {}]_vars

\* C6: when fetchAndStoreExtendedInfo has returned the error of a failed
\* lookup, no transaction of the batch has extended info or the fetched flag
\* set, and the needs-enrichment scan of the product returns every
\* transaction of the batch.
C6_FailedLookupLeavesBatchUnenriched ==
    (pc = "done" /\ err = "fetching extended info for txn") =>
       \A i \in DOMAIN allNewTxns :
          /\ \A r \in RowsFor(card_linked_account_transactions, allNewTxns[i]) :
                r.product_id = cardID =>
                   r.extended_fetched = 0 /\ r.ext = "NULL"
          /\ allNewTxns[i] \in GetTransactionsNeedingExtendedInfo(
                                  card_linked_account_transactions, cardID)

\* C7: when the write-back has failed after every lookup of the batch
\* succeeded, no transaction of the batch has extended info or the fetched
\* flag set.
C7_WriteBackAtomic ==
    (pc = "done" /\ err = "storing extended info") =>
       \A i \in DOMAIN allNewTxns :
          \A r \in RowsFor(card_linked_account_transactions, allNewTxns[i]) :
             r.product_id = cardID =>
                r.extended_fetched = 0 /\ r.ext = "NULL"

\* C8: once a lookup of the batch has failed, no lookup that had not been
\* started is started.
C8_FailFast ==
    [][(pc = "enrich" /\ gerr # "nil") =>
          \A i \in Pending : status'[i] = "pending"]_vars

\* C9: never more than 5 lookups are in flight, and when g.Wait() has
\* returned the lookup of every transaction of the batch has been issued
\* and has returned.
C9_AtMostFiveInFlight ==
    /\ pc = "enrich" => Cardinality(Running) <= 5
    /\ pc \in {"store", "done"} =>
          /\ DOMAIN status = DOMAIN allNewTxns
          /\ \A i \in DOMAIN status : status[i] \in {"ok", "failed"}

\* C9 witness: 5 lookups are in flight and a further transaction waits.
C9_Witness ==
    /\ pc = "enrich"
    /\ Cardinality(Running) = 5
    /\ Pending # {}

\* C10: when the sync of a card with a linked account has returned nil, no
\* transaction that a failed enrichment batch of the card left without
\* extended info is still without it: a later run has picked it up again.
C10_LeftoversPickedUp ==
    (pc = "done" /\ err = "nil" /\ cur.ProductType = "CARD"
        /\ cur.AccountID # "") =>
       \A t \in GetTransactionsNeedingExtendedInfo(
                   card_linked_account_transactions, cardID) :
          <<cardID, t>> \notin failedBatch

\* the rows of a table that belong to other products, with their copies
RowsNotOf(table, productID) ==
    [r \in {q \in BagToSet(table) : q.product_id # productID} |-> table[r]]

\* C11: when the sync of a product has returned an error, the next step
\* goes on with the next product of the list, and no step of the sync of a
\* product changes a row of another product.
C11_ErrorDoesNotEndInvocation ==
    [][/\ (pc = "done" /\ err # "nil") =>
            /\ products' = Tail(products)
            /\ products' # <<>> => pc' = FirstPc(Head(products'))
       /\ products # <<>> =>
            /\ RowsNotOf(card_transactions', cur.ID)
                  = RowsNotOf(card_transactions, cur.ID)
            /\ RowsNotOf(card_linked_account_transactions', cur.ID)
                  = RowsNotOf(card_linked_account_transactions, cur.ID)
            /\ RowsNotOf(account_transactions', cur.ID)
                  = RowsNotOf(account_transactions, cur.ID)]_vars

\* C11 witness: the sync of a product has returned an error, a later product
\* of the list waits, and another product has rows in the store.
C11_Witness ==
    /\ pc = "done"
    /\ err # "nil"
    /\ Len(products) > 1
    /\ DOMAIN RowsNotOf(card_linked_account_transactions, cur.ID) # {}

\* C12: a step that calls one of the three insert functions leaves the table
\* as it was when the call returns an error, and otherwise stores every
\* record of the batch whose key was not in the table.
C12_InsertAllOrNothing ==
    [][/\ pc = "card_resp" =>
            LET batch == NewCardTxns(resp, existingCardKeys)
            IN  IF err' = "inserting card transactions"
                THEN card_transactions' = card_transactions
                ELSE \A i \in DOMAIN batch :
                        RowsFor(card_transactions, batch[i]) = {} =>
                           CardRow(cardID, batch[i])
                              \in BagToSet(card_transactions')
       /\ pc = "linked_resp" =>
            LET batch == ScanPage(resp, existingKeys, <<>>).newTxns
            IN  IF err' = "inserting linked account transactions"
                THEN card_linked_account_transactions'
                        = card_linked_account_transactions
                ELSE \A i \in DOMAIN batch :
                        RowsFor(card_linked_account_transactions, batch[i]) = {}
                           => LinkedRow(cardID, batch[i])
                                 \in BagToSet(card_linked_account_transactions')
       /\ pc = "account_resp" =>
            LET batch == ScanHistory(resp, existingIDs, <<>>).newTxns
            IN  IF err' = "inserting transactions"
                THEN account_transactions' = account_transactions
                ELSE \A i \in DOMAIN batch :
                        (\A r \in BagToSet(account_transactions) :
                            r.id # batch[i].ID) =>
                           AccountRow(accountID, batch[i])
                              \in BagToSet(account_transactions')]_vars

\* C12 witness: an insert has returned an error while the store holds the
\* rows of earlier batches.
C12_Witness ==
    /\ pc = "done"
    /\ err \in {"inserting card transactions",
                "inserting linked account transactions",
                "inserting transactions"}
    /\ BagCardinality(card_linked_account_transactions) > 0

\* C13: when the insert of a page fails in one of the two paginated loops,
\* the run ends with the error and the store is as it was, so the batches of
\* the earlier pages remain; a run that has ended fetches no page, the next
\* step leaves the product.
C13_InsertFailureEndsRun ==
    [][/\ (/\ pc \in {"linked_resp", "account_resp"}
           /\ err' \in {"inserting linked account transactions",
                        "inserting transactions"}) =>
            /\ pc' = "done"
            /\ UNCHANGED storeVars
       /\ pc = "done" =>
            /\ products' = Tail(products)
            /\ UNCHANGED storeVars]_vars

\* C13 witness: the run has committed the batch of an earlier page, which is
\* stored, and the page at hand holds a new record, whose insert can fail.
C13_Witness ==
    /\ pc = "linked_resp"
    /\ page > 0
    /\ allNewTxns # <<>>
    /\ \A i \in DOMAIN allNewTxns :
          LinkedRow(cardID, allNewTxns[i])
             \in BagToSet(card_linked_account_transactions)
    /\ ScanPage(resp, existingKeys, <<>>).newTxns # <<>>

\* the records of a list
Range(s) == { s[i] : i \in DOMAIN s }

\* the distance in time of two records with parseable dates, in steps of 10 s
Gap(a, b) ==
    LET x == Parse(a.OperationDate).t
        y == Parse(b.OperationDate).t
    IN  IF x < y THEN y - x ELSE x - y

\* linked record l has the amount of card record c and a date at most 60 s
\* from the date of c
Near(c, l) ==
    /\ ~Parse(c.OperationDate).err
    /\ ~Parse(l.OperationDate).err
    /\ l.Amount.Amount = c.Amount.Amount
    /\ Gap(c, l) <= 6

\* C14: after the merge, for every card record with a parseable date: if
\* some linked record of the same amount is dated at most 60 s from it, a
\* linked record stands in its place and the card record is not in the
\* output; if none is, the card record stands in its place unchanged.
C14_CardReplacedIffLinkedWithinMinute ==
    mpc = "sort" =>
        \A i \in DOMAIN cardTxns :
            ~Parse(cardTxns[i].OperationDate).err =>
                IF \E j \in DOMAIN linkedTxns : Near(cardTxns[i], linkedTxns[j])
                THEN /\ combined[i] \in Range(linkedTxns)
                     /\ cardTxns[i] \notin Range(combined)
                ELSE combined[i] = cardTxns[i]

\* C15: after the merge, every linked record stands at most once in the
\* output, so at most one card record has claimed it.
C15_LinkedClaimedOnce ==
    mpc = "sort" =>
        \A j \in DOMAIN linkedTxns :
            Cardinality({ i \in DOMAIN combined :
                            combined[i] = linkedTxns[j] }) <= 1

\* C16: after the merge, a linked record standing in the place of a card
\* record has the currency and the amount of that card record.
C16_NeverAcrossCurrencies ==
    mpc = "sort" =>
        \A i \in DOMAIN cardTxns :
            combined[i] # cardTxns[i] =>
                /\ combined[i].Amount.Currency = cardTxns[i].Amount.Currency
                /\ combined[i].Amount.Amount = cardTxns[i].Amount.Amount

\* the output of the merge holds one record for each card record, in the
\* order of the card records, and then the linked records added by the
\* second loop
InPlaceOfCards == SubSeq(combined, 1, Len(cardTxns))
AddedLinked == SubSeq(combined, Len(cardTxns) + 1, Len(combined))

\* C17: after the merge, a linked record that stands in no card record's
\* place is among the added records exactly when its type is one of
\* transfer:to-card, transfer:local, exchange, cash-out and
\* transfer:between-own-accounts; "card" and any other type are dropped.
C17_UnclaimedKeptIffRealTime ==
    mpc = "sort" =>
        \A j \in DOMAIN linkedTxns :
            linkedTxns[j] \notin Range(InPlaceOfCards) =>
                (linkedTxns[j] \in Range(AddedLinked)
                   <=> linkedTxns[j].TransactionType
                          \in {"transfer:to-card", "transfer:local",
                               "exchange", "cash-out",
                               "transfer:between-own-accounts"})

\* C17 witness: the merge of a card record with three unclaimed linked
\* records, one of an allowed type, which is kept, one of type "card" and
\* one of another type.
C17_Witness ==
    /\ mpc = "sort"
    /\ cardTxns # <<>>
    /\ InPlaceOfCards = cardTxns
    /\ \E j \in DOMAIN linkedTxns :
          /\ linkedTxns[j].TransactionType = "transfer:local"
          /\ linkedTxns[j] \in Range(AddedLinked)
    /\ \E j \in DOMAIN linkedTxns : linkedTxns[j].TransactionType = "card"
    /\ \E j \in DOMAIN linkedTxns : linkedTxns[j].TransactionType = "fee"

\* C18: the total count a call returns is the number of records of the
\* whole merged set, whatever the page and the size.
C18_TotalCountIsMergedSize ==
    mpc = "return" =>
        totalCount = Len(mergeTransactions(cardTxns, linkedTxns))

\* C18 witness: five merged records, size 2, page 1: the call returns two
\* records and the total 5.
C18_Witness ==
    /\ mpc = "return"
    /\ opts.Size = GoInt(0, 2)
    /\ opts.Page = GoInt(0, 1)
    /\ Len(combined) = 2
    /\ totalCount = 5

\* the pages 0..k of the sorted list for the size of the call, one after
\* the other
RECURSIVE PagesUpTo(_, _, _)
PagesUpTo(sorted, o, k) ==
    LET p == PageOf(sorted, [o EXCEPT !.Page = GoInt(0, k)]).combined
    IN  IF k = 0 THEN p ELSE PagesUpTo(sorted, o, k - 1) \o p

\* C19: the pagination step returns, for a size above 0 and a page p >= 0,
\* the records at the positions p*size up to min(p*size + size, total) of
\* the sorted list, none when p*size >= total, and the whole list for size
\* 0; the pages 0, 1, 2, ... one after the other are the sorted list.
C19_PageIsSliceOfSorted ==
    [][mpc = "page" =>
         LET size == opts.Size.l
             total == Len(combined)
             first == opts.Page.l * size
         IN  /\ mpc' = "return"
             /\ size = 0 => combined' = combined
             /\ size > 0 =>
                  /\ combined' =
                       IF opts.Page.h > 0 \/ first >= total THEN <<>>
                       ELSE SubSeq(combined, first + 1,
                                   Min(first + size, total))
                  /\ PagesUpTo(combined, opts, total) = combined]_vars

\* C20: after the sort, the records with a parseable date are in
\* non-decreasing order of their parsed date when ascending is set and in
\* non-increasing order otherwise.
C20_SortedByParsedDate ==
    mpc = "page" =>
        \A i, j \in DOMAIN combined :
            (/\ i < j
             /\ ~Parse(combined[i].OperationDate).err
             /\ ~Parse(combined[j].OperationDate).err) =>
                IF opts.Ascending
                THEN Parse(combined[i].OperationDate).t
                         <= Parse(combined[j].OperationDate).t
                ELSE Parse(combined[i].OperationDate).t
                         >= Parse(combined[j].OperationDate).t

\* C20 witness: an ascending sort has rearranged a merged list of at least
\* three records with three different parseable dates.
C20_Witness ==
    /\ mpc = "page"
    /\ opts.Ascending
    /\ combined # mergeTransactions(cardTxns, linkedTxns)
    /\ Cardinality({ Parse(combined[i].OperationDate).t :
                       i \in { k \in DOMAIN combined :
                                 ~Parse(combined[k].OperationDate).err } }) >= 3

\* list s without its i-th record
RemoveAt(s, i) == SubSeq(s, 1, i - 1) \o SubSeq(s, i + 1, Len(s))

\* C21: after the merge, a card record whose date cannot be parsed stands
\* in its own place unchanged and has claimed nothing: the output without
\* it is the merge of the other card records with the same linked records.
\* No step after the reads ends the call with an error, and the call
\* returns whenever the product of page and size does not overflow.
C21_UnparseableCardPassesThrough ==
    [][/\ mpc = "merge" =>
            /\ mpc' = "sort"
            /\ \A i \in DOMAIN cardTxns :
                  Parse(cardTxns[i].OperationDate).err =>
                      /\ combined'[i] = cardTxns[i]
                      /\ RemoveAt(combined', i)
                           = mergeTransactions(RemoveAt(cardTxns, i),
                                               linkedTxns)
       /\ mpc \in {"merge", "sort", "page"} => mpc' # "error"
       /\ (mpc = "page" /\ opts.Page.h = 0) => mpc' = "return"]_vars

\* C21 witness: the merge has passed a card record with an unparseable date
\* through while a linked record of its amount and of an allowed type, with
\* a parseable date, was there to be claimed and is added unclaimed.
C21_Witness ==
    /\ mpc = "sort"
    /\ \E i \in DOMAIN cardTxns :
          /\ Parse(cardTxns[i].OperationDate).err
          /\ combined[i] = cardTxns[i]
          /\ \E j \in DOMAIN linkedTxns :
                /\ ~Parse(linkedTxns[j].OperationDate).err
                /\ linkedTxns[j].Amount = cardTxns[i].Amount
                /\ linkedTxns[j] \in Range(AddedLinked)

\* the rows of the account table with the id
RowsWithID(table, id) == [r \in {q \in BagToSet(table) : q.id = id} |-> table[r]]

\* C22: against a history feed that does not change, a run of syncAccount
\* for an account whose earlier run returned nil leaves the row count of
\* the account as it is.  In every run the batch built from a page holds no
\* id twice and no id that is stored or was seen on an earlier page, and no
\* step adds or changes a row of an id that is already stored.
C22_AccountDedupByID ==
    [][/\ (products # <<>> /\ cur \in synced) =>
            CountAccountTransactions(account_transactions', accountID)
              = CountAccountTransactions(account_transactions, accountID)
       /\ pc = "account_resp" =>
            LET newTxns == ScanHistory(resp, existingIDs, <<>>).newTxns
            IN  \A i \in DOMAIN newTxns :
                   /\ RowsWithID(account_transactions, newTxns[i].ID)
                        = EmptyBag
                   /\ newTxns[i].ID \notin existingIDs
                   /\ \A j \in DOMAIN newTxns :
                         i # j => newTxns[i].ID # newTxns[j].ID
       /\ \A t \in HistoryFeedTxns :
            RowsWithID(account_transactions, t.ID) # EmptyBag =>
                RowsWithID(account_transactions', t.ID)
                  = RowsWithID(account_transactions, t.ID)]_vars

\* C22 witness: the second run of an account has returned nil; its feed
\* gives the same id on two pages, and the account has rows.
C22_Witness ==
    /\ remote.mode = "stable"
    /\ pc = "done"
    /\ err = "nil"
    /\ cur \in synced
    /\ CountAccountTransactions(account_transactions, accountID) > 1
    /\ Len(remote.history) = 2
    /\ \E i \in DOMAIN remote.history[1].Transactions :
       \E j \in DOMAIN remote.history[2].Transactions :
          remote.history[1].Transactions[i] = remote.history[2].Transactions[j]

\* C23: when syncAccount has processed page k without an error, it goes on
\* to fetch page k+1 exactly when page k was not empty, its hasNext flag
\* was true and some id on it was not yet known; otherwise the loop is
\* left.  Every record of the page with an id not yet known is stored for
\* the account.
C23_NextPageIffFlagAndNewID ==
    [][(pc = "account_resp" /\ pc' # "done") =>
          LET fresh == {i \in DOMAIN resp : resp[i].ID \notin existingIDs}
          IN  /\ IF resp # <<>> /\ hasNext /\ fresh # {}
                 THEN pc' = "account_fetch" /\ page' = page + 1
                 ELSE pc' = "account_done" /\ page' = page
              /\ \A i \in fresh :
                    AccountRow(accountID, resp[i])
                       \in BagToSet(account_transactions')]_vars

\* C23 witness: the loop was left after a second page, and the records of
\* both pages are stored.
C23_Witness ==
    /\ pc = "account_done"
    /\ page = 1
    /\ resp # <<>>
    /\ CountAccountTransactions(account_transactions, accountID) = 2

\* the linked-account rows that UpdateTransactionExtendedInfo addresses
Addressed(productID, info) ==
    {r \in BagToSet(card_linked_account_transactions) :
        /\ r.product_id = productID
        /\ r.id = info.txnID
        /\ r.operation_date = info.operationDate}

\* C24: whatever the remote returns and however often the sync runs, a
\* linked-account row whose fetched flag is set is left as it is by every
\* step, and a write-back of extended info addresses only rows whose flag
\* is not set.
C24_FetchedFlagOnlyRises ==
    [][/\ \A r \in BagToSet(card_linked_account_transactions) :
            r.extended_fetched = 1 =>
                /\ r \in BagToSet(card_linked_account_transactions')
                /\ card_linked_account_transactions'[r]
                     = card_linked_account_transactions[r]
       /\ (pc = "store" /\ wb' = wb + 1) =>
            \A r \in Addressed(cardID, extInfos[wb]) :
                r.extended_fetched = 0]_vars

\* C24 witness: a later run of a card writes extended info back to a new
\* row while another row of the card has its flag set from an earlier run.
C24_Witness ==
    /\ pc = "store"
    /\ wb = 1
    /\ extInfos # <<>>
    /\ Addressed(cardID, extInfos[1]) # {}
    /\ \E r \in BagToSet(card_linked_account_transactions) :
          r.product_id = cardID /\ r.extended_fetched = 1

\* the key and the non-extended fields of a stored row
NonExtended(r) ==
    [f \in DOMAIN r \ {"ext", "extended_fetched"} |-> r[f]]

\* every row of the table is in the later table with the same key and
\* non-extended fields
RowsKept(table, later) ==
    \A r \in BagToSet(table) :
        \E q \in BagToSet(later) :
            NonExtended(q) = NonExtended(r) /\ later[q] = table[r]

\* C25: against a remote that may return a stored record with other field
\* values, every step keeps every row of the three tables with its key and
\* its non-extended fields; a write-back of extended info adds no row and
\* leaves every row it does not address as it is.
C25_RowsKeptAndNonExtendedFixed ==
    [][/\ RowsKept(card_transactions, card_transactions')
       /\ RowsKept(card_linked_account_transactions,
                   card_linked_account_transactions')
       /\ RowsKept(account_transactions, account_transactions')
       /\ pc = "store" =>
            /\ BagCardinality(card_linked_account_transactions')
                 = BagCardinality(card_linked_account_transactions)
            /\ wb' = wb + 1 =>
                 \A r \in BagToSet(card_linked_account_transactions)
                           \ Addressed(cardID, extInfos[wb]) :
                    /\ r \in BagToSet(card_linked_account_transactions')
                    /\ card_linked_account_transactions'[r]
                         = card_linked_account_transactions[r]]_vars

\* C25 witness: the run of a card whose linked account is shared has handed
\* to the insert a record whose key is stored with other field values, and
\* the stored row carries extended info from an earlier write-back.
C25_Witness ==
    /\ pc \in {"linked_fetch", "linked_done"}
    /\ \E i \in DOMAIN resp :
       \E r \in BagToSet(card_linked_account_transactions) :
          /\ r.id = resp[i].ID
          /\ r.operation_date = resp[i].OperationDate
          /\ r.details # resp[i].Details
          /\ r.extended_fetched = 1
          /\ r.product_id # cardID
          /\ TxnKey(resp[i].ID, resp[i].OperationDate) \in existingKeys

\* C26: a read with includeExtended returns one record for each row of the
\* card, with extended info exactly when the fetched flag of the row is
\* set: a row whose write-back stored empty fields has it, with the fields
\* empty, and a row without write-back has none.  A read without
\* includeExtended returns no extended info.
C26_ExtendedIffFetched ==
    mpc = "rows" =>
        /\ Len(linkedTxns)
             = Cardinality(RowsOf(card_linked_account_transactions, Card1.ID))
        /\ \A r \in RowsOf(card_linked_account_transactions, Card1.ID) :
              \E i \in DOMAIN linkedTxns :
                 /\ linkedTxns[i].ID = r.id
                 /\ linkedTxns[i].OperationDate = r.operation_date
                 /\ IF opts.IncludeExtended /\ r.extended_fetched = 1
                    THEN /\ linkedTxns[i].Extended # <<>>
                         /\ r.ext = "" =>
                              linkedTxns[i].Extended[1].BeneficiaryName = ""
                    ELSE linkedTxns[i].Extended = <<>>

\* C26 witness: a read with includeExtended of a table that holds a row
\* enriched with empty fields, a row enriched with text and a row never
\* enriched.
C26_Witness ==
    /\ mpc = "rows"
    /\ opts.IncludeExtended
    /\ \E r \in BagToSet(card_linked_account_transactions) :
          r.extended_fetched = 1 /\ r.ext = ""
    /\ \E r \in BagToSet(card_linked_account_transactions) :
          r.extended_fetched = 1 /\ r.ext = ExtInfo
    /\ \E r \in BagToSet(card_linked_account_transactions) :
          r.extended_fetched = 0 /\ r.ext = "NULL"
    /\ \E i \in DOMAIN linkedTxns : linkedTxns[i].Extended = <<>>

\* the keys of the records of a batch that no row of the table has
AbsentFrom(table, txns) ==
    {Key(txns[i]) : i \in {j \in DOMAIN txns : RowsFor(table, txns[j]) = {}}}

\* C27: an insert that succeeds returns the number of keys of its batch
\* that were not stored, which is the number of rows it has added: a batch
\* of stored records returns 0, a batch of stored and new records the
\* number of the new ones.
C27_InsertReturnsInsertedCount ==
    [][/\ (pc = "card_resp" /\ pc' # "done") =>
            LET batch == NewCardTxns(resp, existingCardKeys)
                n == InsertCardTransactions(card_transactions, cardID, batch,
                                            FALSE).inserted
            IN  /\ n = Cardinality(AbsentFrom(card_transactions, batch))
                /\ n = BagCardinality(card_transactions')
                         - BagCardinality(card_transactions)
       /\ (pc = "linked_resp" /\ pc' # "done") =>
            LET batch == ScanPage(resp, existingKeys, <<>>).newTxns
                n == InsertLinkedAccountTransactions(
                         card_linked_account_transactions, cardID, batch,
                         FALSE).inserted
            IN  /\ n = Cardinality(AbsentFrom(card_linked_account_transactions,
                                              batch))
                /\ n = BagCardinality(card_linked_account_transactions')
                         - BagCardinality(card_linked_account_transactions)
       /\ (pc = "account_resp" /\ pc' # "done") =>
            LET batch == ScanHistory(resp, existingIDs, <<>>).newTxns
                n == InsertAccountTransactions(account_transactions, accountID,
                                               batch, FALSE).inserted
            IN  /\ n = Cardinality({batch[i].ID : i \in {j \in DOMAIN batch :
                          RowsWithID(account_transactions, batch[j].ID)
                             = EmptyBag}})
                /\ n = BagCardinality(account_transactions')
                         - BagCardinality(account_transactions)]_vars

\* C27 witness: the second card of a shared account has inserted a page of
\* two records, one stored by the first card and one new: one row was
\* added for it.
C27_Witness ==
    /\ pc \in {"linked_fetch", "linked_done"}
    /\ Len(allNewTxns) = 2
    /\ \E i, j \in DOMAIN allNewTxns :
          /\ \E r \in RowsFor(card_linked_account_transactions, allNewTxns[i]) :
                r.product_id # cardID
          /\ \E r \in RowsFor(card_linked_account_transactions, allNewTxns[j]) :
                r.product_id = cardID

\* the versions after from up to the number of migrations, in order
PendingMigrations(from) == [k \in 1..(Len(migrations) - from) |-> from + k]

\* C28: a call of Migrate executes the migrations above the recorded
\* version only, each at most once and in version order, and a call that
\* returns nil has executed every one of them and leaves the version at the
\* number of migrations; a call on an up-to-date database executes nothing,
\* changes nothing, returns nil and leaves the version at 5.
C28_MigrateAppliesPendingOnce ==
    [][ /\ (mgpc' \in {"loop", "record", "return", "error"})
            => /\ Len(ran') <= Len(PendingMigrations(currentVersion'))
               /\ \A k \in DOMAIN ran' : ran'[k] = PendingMigrations(currentVersion')[k]
        /\ (mgpc' = "return")
            => /\ ran' = PendingMigrations(currentVersion')
               /\ schema_version' = 1..Len(migrations)
               /\ MaxVersion(schema_version') = 5
        /\ (mgpc = "loop" /\ currentVersion = Len(migrations))
            => /\ mgpc' = "return"
               /\ ran' = <<>>
               /\ schema' = schema
               /\ schema_version' = schema_version ]_vars

\* Migrate ran again on an up-to-date database and returned nil
C28_Witness ==
    /\ mgpc = "return"
    /\ currentVersion = Len(migrations)
    /\ ran = <<>>
    /\ schema_version = 1..5


\* LoadSession has just returned without an error on a saved session
LoadedSaved ==
    /\ lpc = "load"
    /\ lpc' = "return"
    /\ SessionFile # ""
    /\ savedSession # <<>>

\* C29 as stated: LoadSession returns a saved session only if its expiry is
\* more than one minute after the current time; a session that has expired
\* or expires within the next minute yields no session and no error.
C29_ReturnedOnlyIfMoreThanMinuteLeft ==
    [][LoadedSaved =>
          /\ loaded' # <<>> => savedSession[1].ExpiresAt > now + Minute
          /\ savedSession[1].ExpiresAt <= now + Minute => loaded' = <<>>]_vars

\* C29 as amended: LoadSession returns a saved session exactly if its expiry
\* is at least one minute after the current time, and then it is the saved
\* session; a session that has expired or expires in less than a minute
\* yields no session and no error.
C29_ReturnedIffMinuteLeft ==
    [][LoadedSaved =>
          /\ loaded' # <<>> <=> savedSession[1].ExpiresAt >= now + Minute
          /\ loaded' # <<>> => loaded' = savedSession
          /\ savedSession[1].ExpiresAt < now + Minute => loaded' = <<>>]_vars

\* LoadSession returned nil, nil for a session with half a minute left
C29_Witness ==
    /\ lpc = "return"
    /\ loaded = <<>>
    /\ savedSession # <<>>
    /\ savedSession[1].ExpiresAt = now + 1


\* the rows a step adds to card_linked_account_transactions
AddedLinkedRows ==
    { r \in BagToSet(card_linked_account_transactions') :
         ~BagIn(r, card_linked_account_transactions) }

\* the records a step appends to allNewTxns
Collected == SubSeq(allNewTxns', Len(allNewTxns) + 1, Len(allNewTxns'))

\* C30: the records syncCardAccountTransactions hands to
\* fetchAndStoreExtendedInfo are exactly the records this run inserted:
\* every page adds to allNewTxns the records whose rows it adds to the
\* table, and nothing else, and after the loop allNewTxns is what the
\* enrichment receives.
C30_HandedAreInserted ==
    [][ /\ (pc = "linked_resp" /\ pc' # "done")
            => /\ Len(allNewTxns') >= Len(allNewTxns)
               /\ { Key(t) : t \in Range(Collected) }
                     = { TxnKey(r.id, r.operation_date) : r \in AddedLinkedRows }
               /\ \A r \in AddedLinkedRows : r.product_id = cardID
        /\ (pc = "linked_done" /\ pc' = "enrich")
            => /\ allNewTxns' = allNewTxns
               /\ DOMAIN status' = DOMAIN allNewTxns ]_vars


\* the keys of the records of a sequence
Keys(txns) == { Key(txns[i]) : i \in DOMAIN txns }

\* no two records of the sequence have the same key
DistinctKeys(txns) ==
    \A i, j \in DOMAIN txns : Key(txns[i]) = Key(txns[j]) => i = j

\* C31: the known-key set of syncCardAccountTransactions starts as the
\* product's stored keys and grows by the keys of every processed page; the
\* batch of a page holds each key of the page that was not known, once, so
\* over a run no key is in two batches or twice in one, and the records
\* handed to the enrichment have pairwise different keys.
C31_KeyInOneBatchOnly ==
    [][ /\ (pc = "card_resp" /\ pc' = "linked_fetch")
            => existingKeys' = { TxnKey(r.id, r.operation_date) :
                                    r \in RowsOf(card_linked_account_transactions',
                                                 cardID) }
        /\ (pc = "linked_resp" /\ pc' # "done")
            => /\ existingKeys' = existingKeys \cup Keys(resp)
               /\ Keys(Collected) = Keys(resp) \ existingKeys
               /\ DistinctKeys(Collected)
               /\ DistinctKeys(allNewTxns')
        /\ (pc = "linked_done" /\ pc' = "enrich")
            => /\ DistinctKeys(allNewTxns')
               /\ DOMAIN status' = DOMAIN allNewTxns' ]_vars

\* the second page brought the two records of the first page again: they
\* were put in the first batch only, and the loop has ended
C31_Witness ==
    /\ pc = "linked_done"
    /\ page = 1
    /\ Len(resp) = 2
    /\ Key(resp[1]) # Key(resp[2])
    /\ Len(allNewTxns) = 2
    /\ Keys(resp) = Keys(allNewTxns)


\* C32: when fetchAndStoreExtendedInfo returns nil, one result per
\* transaction of the batch was accumulated (none lost, none twice), and
\* every transaction of the batch is a row of the product with its extended
\* fields stored and its fetched flag set, so that
\* GetTransactionsNeedingExtendedInfo returns none of them.
C32_BatchFullyEnriched ==
    (pc = "done" /\ err = "nil" /\ allNewTxns # <<>>) =>
       /\ Len(extInfos) = Len(allNewTxns)
       /\ \A i \in DOMAIN allNewTxns :
             Cardinality({k \in DOMAIN extInfos :
                             /\ extInfos[k].txnID = allNewTxns[i].ID
                             /\ extInfos[k].operationDate
                                   = allNewTxns[i].OperationDate}) = 1
       /\ \A i \in DOMAIN allNewTxns :
             /\ \E r \in RowsOf(card_linked_account_transactions, cardID) :
                   /\ r.id = allNewTxns[i].ID
                   /\ r.operation_date = allNewTxns[i].OperationDate
                   /\ r.extended_fetched = 1
                   /\ r.ext = ExtInfo
             /\ Transaction(allNewTxns[i].ID, allNewTxns[i].OperationDate)
                   \notin GetTransactionsNeedingExtendedInfo(
                              card_linked_account_transactions, cardID)


\* C33: the products of an invocation are synced one after another: the
\* next product starts only when the sync of the current one has returned,
\* and a detail lookup is in flight only inside the enrichment of the
\* current product; when that sync returns, also with an error, every
\* lookup it started has returned.
C33_ProductsOneAtATime ==
    [][ /\ Running' # {} => pc' = "enrich"
        /\ (products # <<>> /\ products' # products)
            => /\ pc = "done"
               /\ products' = Tail(products)
               /\ \A i \in DOMAIN status : status[i] \in {"ok", "failed"} ]_vars

\* the enrichment of c1 ended with an error and the sync of c2 has started
C33_Witness ==
    /\ products = <<Card2>>
    /\ pc = "card_fetch"
    /\ \E fb \in failedBatch : fb[1] = Card1.ID
    /\ Running = {}


\* the positions of the linked records of the amount of card record c that
\* are dated at most 60 s from it
Window(c) == { j \in DOMAIN linkedTxns : Near(c, linkedTxns[j]) }

\* the first position, in read order, of a record of the window that is
\* closest in time to c
Closest(c) ==
    CHOOSE j \in Window(c) :
        \A k \in Window(c) :
            \/ Gap(c, linkedTxns[j]) < Gap(c, linkedTxns[k])
            \/ Gap(c, linkedTxns[j]) = Gap(c, linkedTxns[k]) /\ j <= k

\* C34: after the merge, a card record with a parseable date that has
\* linked records of its amount within 60 s is replaced by the one of them
\* that is closest in time, and among equally close ones by the first in
\* the order the linked records were read; no linked record with an
\* unparseable date stands in the place of a card record.
C34_ClosestFirstInReadOrder ==
    mpc = "sort" =>
        \A i \in DOMAIN cardTxns :
            /\ (~Parse(cardTxns[i].OperationDate).err
                   /\ Window(cardTxns[i]) # {})
                  => combined[i] = linkedTxns[Closest(cardTxns[i])]
            /\ combined[i] \in Range(linkedTxns)
                  => ~Parse(combined[i].OperationDate).err


\* C35: when the sync of a card with a linked account has returned nil
\* against a remote whose linked-account feed is the same on every call,
\* every record of every page of the feed is a row of the product, whatever
\* the earlier runs for the product did.
C35_WholeFeedStoredAfterRun ==
    (remote.mode = "stable" /\ pc = "done" /\ err = "nil"
        /\ cur.ProductType = "CARD" /\ cur.AccountID # "") =>
       \A i \in DOMAIN remote.eventsPast :
          TxnKey(remote.eventsPast[i].ID, remote.eventsPast[i].OperationDate)
             \in GetExistingLinkedAccountTxnKeys(
                    card_linked_account_transactions, cardID)


\* C36: in a sync of a card that an earlier sync against the same
\* unchanging remote has completed without error, the linked-account loop
\* ends with its first page and the enrichment is not entered, so that no
\* detail lookup is issued; this holds for every card of the customer.
C36_RepeatedSyncOnePageNoLookup ==
    [][(products # <<>> /\ cur \in synced /\ cur.ProductType = "CARD") =>
          /\ pc = "linked_resp" => pc' # "linked_fetch"
          /\ page' = 0
          /\ pc' # "enrich"
          /\ Running' = {} ]_vars


\* the ids of the records of a sequence
IDs(txns) == { txns[i].ID : i \in DOMAIN txns }

\* C37: whatever the feed answers (a full page, or a true continuation
\* flag, at every page index), each of the two pagination loops goes on to
\* a further page only after a page that held a key not yet known, which
\* from then on is known; so the linked-account loop is at page index at
\* most the number of keys it has learned in the run, the account loop at
\* most the number of ids it knows, and a run fetches at most N + 1 pages
\* when N keys were unknown at its start.
C37_PaginationBoundedByNewKeys ==
    [][ /\ (pc = "linked_resp" /\ pc' = "linked_fetch")
            => /\ page' = page + 1
               /\ Keys(resp) \ existingKeys # {}
               /\ existingKeys' = existingKeys \cup Keys(resp)
        /\ (pc = "account_resp" /\ pc' = "account_fetch")
            => /\ page' = page + 1
               /\ IDs(resp) \ existingIDs # {}
               /\ existingIDs' = existingIDs \cup IDs(resp)
        /\ pc' \in {"linked_fetch", "linked_resp", "linked_done"}
            => /\ page' <= Cardinality(Keys(allNewTxns'))
               /\ Keys(allNewTxns') \subseteq existingKeys'
        /\ pc' \in {"account_fetch", "account_resp", "account_done"}
            => page' <= Cardinality(existingIDs') ]_vars

\* two keys were unknown when the run began and every page was full: the
\* loop has ended with the third page
C37_Witness ==
    /\ pc = "linked_done"
    /\ page = 2
    /\ Len(resp) = PageSize
    /\ Cardinality(Keys(allNewTxns)) = 2


\* the positions of the linked records that stand in the place of a card
\* record
Claimed ==
    { j \in DOMAIN linkedTxns :
         \E i \in DOMAIN cardTxns :
            i <= Len(combined) /\ combined[i] = linkedTxns[j] }

\* C38: after the merge the output holds, in the order of the card
\* records, one record for each of them, the card record itself or a
\* linked record of its amount, followed by the unclaimed linked records
\* of a real-time type; so its length is the number of card records plus
\* the number of those linked records.
C38_OneOutputPerCardRecord ==
    mpc = "sort" =>
       /\ Len(combined) =
             Len(cardTxns)
               + Cardinality({ j \in DOMAIN linkedTxns :
                                  /\ j \notin Claimed
                                  /\ linkedTxns[j].TransactionType
                                        \in RealTimeTransactionTypes })
       /\ \A i \in DOMAIN cardTxns :
             \/ combined[i] = cardTxns[i]
             \/ \E j \in DOMAIN linkedTxns :
                   /\ combined[i] = linkedTxns[j]
                   /\ linkedTxns[j].Amount.Amount = cardTxns[i].Amount.Amount

\* one card record was replaced, another kept, and an unclaimed linked
\* record was added
C38_Witness ==
    /\ mpc = "sort"
    /\ Len(combined) > Len(cardTxns)
    /\ \E i \in DOMAIN cardTxns : combined[i] \in Range(linkedTxns)
    /\ \E i \in DOMAIN cardTxns : combined[i] = cardTxns[i]


\* no two rows of the table have the same (id, operation_date), and no row
\* is stored twice
UniqueKeys(table) ==
    \A r \in BagToSet(table) :
       /\ table[r] = 1
       /\ \A q \in BagToSet(table) : PrimaryKey(q) = PrimaryKey(r) => q = r

\* C39: while another run of the same product commits its batches between
\* the statements of this run, the card and linked-account tables never
\* hold two rows of one key, and an insert of this run that meets a row the
\* other run stored after this run read the existing keys leaves that row
\* as it is and goes on without an error.
C39_ConcurrentRunsKeepKeysUnique ==
    [][ /\ UniqueKeys(card_transactions')
        /\ UniqueKeys(card_linked_account_transactions')
        /\ (pc = "card_resp" /\ pc' # "done")
            => \A r \in BagToSet(card_transactions) :
                  BagIn(r, card_transactions')
        /\ (pc = "linked_resp" /\ pc' # "done")
            => \A r \in BagToSet(card_linked_account_transactions) :
                  BagIn(r, card_linked_account_transactions') ]_vars

\* this run took a record for new and put it in its batch, and the row of
\* the product with that key is the one the other run had stored meanwhile
C39_Witness ==
    /\ pc = "linked_done"
    /\ \E i \in DOMAIN allNewTxns :
          \E r \in RowsOf(card_linked_account_transactions, cardID) :
             /\ r.id = allNewTxns[i].ID
             /\ r.operation_date = allNewTxns[i].OperationDate
             /\ r.details # allNewTxns[i].Details


====
